---- MODULE Spec2Model ----
(***************************************************************************)
(* Model of the agent runtime (AgentRuntime): the tokenizer-based context  *)
(* trimming, the completion client with its typed wrappers, and the state  *)
(* composer.                                                               *)
(***************************************************************************)
EXTENDS Integers, Sequences, FiniteSets, TLC

VARIABLES
    \* ---- trimTokens(context, maxTokens) ----
    context,        \* the text handed to trimTokens / to a completion entry point
    maxTokens,      \* the token budget (max_context_length in force)
    trimmed,        \* the text trimTokens returned
    trimPc,         \* "start" | "done"
    \* ---- completion and the typed wrappers ----
    entry,          \* the entry point called
    wpc,            \* position of the typed wrapper
    cpc,            \* position of completion
    triesLeft,      \* completion: loop counter
    retryLength,    \* completion / messageCompletion: backoff variable
    retryDelay,     \* other wrappers: backoff variable
    wRetryLength,   \* messageCompletion: its own retryLength
    requests,       \* remote requests issued by the current completion call
    failures,       \* failed attempts of the current completion call
    sentContext,    \* the context carried by the last remote request
    lastResponse,   \* the content of the last successful response
    cResult,        \* what completion handed to its invoker: content or error
    result,         \* what the entry point returned to its caller
    cWaits,         \* waits (ms) made by the current completion call, in order
    wWaits,         \* waits (ms) made by the wrapper, in order
    waitedSince,    \* a wait happened since the last remote request
    gapless,        \* two consecutive remote requests had no wait between them
    exhaustions,    \* times completion threw inside this entry call
    rejected,       \* responses the wrapper's parser rejected in this entry call
    badLeft,        \* bad answers the service may still give
    logged,         \* log events written: per kind, how many
    \* ---- composeState ----
    csPc,           \* position of composeState
    conversationLength,
    factStore,      \* the facts namespace of the room, newest first
    additionalKeys, \* the caller's additionalKeys
    validated,      \* names of actions / evaluators whose validate returned true
    recentFactsData,
    relevantFactsData,
    searchIssued,   \* searchMemoriesByEmbedding was called
    searchQuery,    \* the embedding it was called with
    initialState,
    state,          \* the state composeState returned
    messageStore,   \* the messages namespace of the room, newest first
    message,        \* the incoming message: its attachments
    recentMessagesData, \* the array read from the message store
    allAttachments, \* the attachments listed in the state
    csFailed,       \* the branches of a join that failed
    character,      \* this.character: its lists of bio, lore, topics and examples
    csOrder,        \* the order in which the branches of the joins complete
    sampled,        \* the fields of the state sampled from the character's lists
    \* ---- processActions(message, responses, state, callback) ----
    paPc,           \* "idle", "start", "selected", "done"
    actions,        \* this.actions, in registration order
    responses,      \* the responses handed to processActions
    applicable,     \* the registered names whose validate holds for the message
    normalizedAction, \* the normalized name chosen by the model
    selected,       \* index in this.actions of the action found, 0 if none
    handlerCalls,   \* the names of the actions whose handler was called
    paOutcome,      \* "none", "returned", "thrown"
    \* ---- evaluate(message, state) ----
    evPc,           \* "idle", "start", "complete", "run", "done"
    evaluators,     \* this.evaluators, in registration order
    evValid,        \* the registered names whose validate holds for the message
    evaluatorsData, \* the evaluators offered to the model
    parsedResult,   \* the names in the array parsed from the model's answer
    evHandlerCalls, \* the names of the evaluators whose handler was called
    evOutcome,      \* "none", "returned", "returned null", "thrown"
    \* ---- ensureUserExists, ensureRoomExists, ensureParticipantInRoom ----
    enUser,         \* the reacting user of each running handler
    enRoom,         \* the room of each running handler
    enPc,           \* per handler and call: "todo", "missing", "found", "done"
    accounts,       \* the accounts of the store
    rooms,          \* the rooms of the store
    participants,   \* the (user, room) pairs of the store
    createCalls,    \* per key, the calls of createAccount, createRoom, addParticipant
    \* ---- embed(input) ----
    emPc,           \* "idle", "ready", "start", "fetch"
    hasKey,         \* whether OPENAI_API_KEY is set
    cachedEmbeddings, \* per text, the embedding stored with a message of that text
    emInput,        \* the input of the call in progress
    emCalls,        \* the calls of embed that ended: input and value returned
    emRequests,     \* per input, the requests made to an embedding service
    \* ---- splitChunks(content, chunkSize, bleed) ----
    scPc,           \* "idle", "loop", "done"
    scContent,      \* the text to split
    scChunkSize,    \* tokens per chunk
    scBleed,        \* characters of bleed on each side
    scI,            \* the loop index i
    scChunks,       \* the chunks pushed so far
    \* ---- getSetting(key) ----
    gsPc,           \* "idle", "lookup", "done"
    gsLevels,       \* per level and key, the value held there
    gsKey,          \* the key asked for
    gsLevel,        \* the position of the lookup in the order of levels
    gsResult,       \* the value returned
    \* ---- startAgents / startAgent(character) ----
    stPc,           \* "idle", "loop", "wallet", "clients", "telegram", "twitter",
                    \* "direct", "done", "rejected"
    stCharacters,   \* the characters loaded, with their clients and bot token
    stCoinbase,     \* whether COINBASE_PROJECT_NAME and COINBASE_PRIVATE_KEY are set
    stAgent,        \* the index of the character being started
    stStarted,      \* the (agent, component) pairs that were started
    \* ---- updateRecentMessageState(state) ----
    urPc,           \* "idle", "start", "done"
    urStore,        \* the messages namespace of the room, newest first
    urConversationLength, \* getConversationLength()
    urState,        \* the state object handed in
    urStateAtCall,  \* the value the state object had when it was handed in
    urReturned,     \* the state returned
    \* ---- ensureParticipantExists(userId, roomId) ----
    epPc,           \* "idle", "ready", "read", "check", "done"
    epUserId,       \* the userId of the call
    epRoomId,       \* the roomId of the call
    epParticipants, \* what getParticipantsForAccount(userId) answered
    epCalls,        \* the calls made so far
    \* ---- TwitterGenerationClient: onReady and generateNewTweet ----
    twPc,           \* "idle", "created", "looping"
    twDryRun,       \* this.dryRun
    twTimer,        \* "unset" or "armed": the pending setTimeout
    twElapsed,      \* ms since the timer was set, up to its delay
    twRounds,       \* per slot, a call of generateNewTweet: its position and its calls
    twStarts,       \* calls of generateNewTweet so far, modulo 2
    \* ---- DiscordClient: handleReactionAdd and handleReactionRemove ----
    rxPc,           \* "idle", or "listening" once the handlers are registered
    rxReacted,      \* the (user, emoji) reactions now on the message
    rxHandlers,     \* the handler calls so far, one per reaction event
    rxCreated,      \* the ids createMemory was called with, in order
    \* ---- the auxiliary memory HTTP store ----
    msPc,           \* "idle" or "serving"
    memories,       \* the records of the store, in creation order
    msIssued,       \* ids uuidv4 has given out so far
    msNow,          \* new Date(): the requests served so far
    msLast          \* the last request: method, id, status, and the store before it

trimVars == <<context, maxTokens, trimmed, trimPc>>
compVars == <<entry, wpc, cpc, triesLeft, retryLength, retryDelay, wRetryLength,
              requests, failures, sentContext, lastResponse, cResult, result,
              cWaits,
              wWaits, waitedSince, gapless, exhaustions, rejected, badLeft,
              logged>>
csVars   == <<csPc, conversationLength, factStore, additionalKeys, validated,
              recentFactsData, relevantFactsData, searchIssued, searchQuery,
              initialState, state, messageStore, message, recentMessagesData,
              allAttachments, csFailed, character, csOrder, sampled>>
paVars   == <<paPc, actions, responses, applicable, normalizedAction, selected,
              handlerCalls, paOutcome>>
evVars   == <<evPc, evaluators, evValid, evaluatorsData, parsedResult,
              evHandlerCalls, evOutcome>>
dispVars == <<paVars, evVars>>
enVars   == <<enUser, enRoom, enPc, accounts, rooms, participants, createCalls>>
emVars   == <<emPc, hasKey, cachedEmbeddings, emInput, emCalls, emRequests>>
storeVars == <<enVars, emVars>>
scVars   == <<scPc, scContent, scChunkSize, scBleed, scI, scChunks>>
gsVars   == <<gsPc, gsLevels, gsKey, gsLevel, gsResult>>
stVars   == <<stPc, stCharacters, stCoinbase, stAgent, stStarted>>
urVars   == <<urPc, urStore, urConversationLength, urState, urStateAtCall,
              urReturned>>
epVars   == <<epPc, epUserId, epRoomId, epParticipants, epCalls>>
twVars   == <<twPc, twDryRun, twTimer, twElapsed, twRounds, twStarts>>
rxVars   == <<rxPc, rxReacted, rxHandlers, rxCreated>>
msVars   == <<msPc, memories, msIssued, msNow, msLast>>
miscVars == <<scVars, gsVars, stVars, urVars, epVars, twVars, rxVars, msVars>>
vars     == <<trimVars, compVars, csVars, dispVars, storeVars, miscVars>>

\* what the operations of each part leave alone
scRest == <<trimVars, compVars, csVars, dispVars, storeVars, gsVars, stVars, urVars,
           epVars,
           twVars,
           rxVars,
           msVars>>
gsRest == <<trimVars, compVars, csVars, dispVars, storeVars, scVars, stVars, urVars,
           epVars,
           twVars,
           rxVars,
           msVars>>
stRest == <<trimVars, compVars, csVars, dispVars, storeVars, scVars, gsVars, urVars,
           epVars,
           twVars,
           rxVars,
           msVars>>
urRest == <<trimVars, compVars, csVars, dispVars, storeVars, scVars, gsVars, stVars,
           epVars,
           twVars,
           rxVars,
           msVars>>
epRest == <<trimVars, compVars, csVars, dispVars, emVars, scVars, gsVars, stVars,
           urVars,
           twVars,
           rxVars,
           msVars>>
twRest == <<trimVars, compVars, csVars, dispVars, storeVars,
           scVars, gsVars, stVars, urVars, epVars,
           rxVars,
           msVars>>
rxRest == <<trimVars, compVars, csVars, dispVars, storeVars,
           scVars, gsVars, stVars, urVars, epVars, twVars,
           msVars>>
msRest == <<trimVars, compVars, csVars, dispVars, storeVars,
           scVars, gsVars, stVars, urVars, epVars, twVars, rxVars>>

(***************************************************************************)
(* Bounds of the model.                                                    *)
(***************************************************************************)
MaxLen == 4          \* longest text, in characters
MaxBudget == 3       \* largest token budget handed to trimTokens alone

Chars == {"a", "b"}

RECURSIVE SeqsUpTo(_, _)
SeqsUpTo(S, n) ==
    IF n = 0 THEN {<< >>}
    ELSE LET shorter == SeqsUpTo(S, n - 1)
         IN  shorter \cup {Append(s, x) : s \in {t \in shorter : Len(t) = n - 1}, x \in S}

Texts == SeqsUpTo(Chars, MaxLen)

(***************************************************************************)
(* The tokenizer (tiktoken): a vocabulary of three tokens, 1 = "a",        *)
(* 2 = "b", 3 = "ab"; encode merges greedily from the left, decode         *)
(* concatenates the tokens' texts.                                         *)
(***************************************************************************)
TokenText(tok) == IF tok = 1 THEN <<"a">> ELSE IF tok = 2 THEN <<"b">> ELSE <<"a", "b">>

RECURSIVE Encode(_)
Encode(text) ==
    IF text = << >> THEN << >>
    ELSE IF Len(text) >= 2 /\ text[1] = "a" /\ text[2] = "b"
         THEN <<3>> \o Encode(SubSeq(text, 3, Len(text)))
         ELSE <<(IF text[1] = "a" THEN 1 ELSE 2)>> \o Encode(Tail(text))

RECURSIVE Decode(_)
Decode(tokens) ==
    IF tokens = << >> THEN << >>
    ELSE TokenText(Head(tokens)) \o Decode(Tail(tokens))

Reverse(s) == [i \in 1..Len(s) |-> s[Len(s) + 1 - i]]

\* Array.prototype.slice(start): the elements from index start (0-based) on
SliceFrom(s, start) == SubSeq(s, start + 1, Len(s))

\* the last n elements of s
LastN(s, n) == SubSeq(s, Len(s) - n + 1, Len(s))

\* tokens.reverse().slice(maxTokens).reverse()
KeptTokens(tokens, n) == Reverse(SliceFrom(Reverse(tokens), n))

TrimTokensOf(ctx, n) ==
    LET tokens == Encode(ctx)
    IN  IF Len(tokens) > n THEN Decode(KeptTokens(tokens, n)) ELSE ctx

(***************************************************************************)
(* trimTokens as an operation of its own.                                  *)
(***************************************************************************)
TrimIdle ==
    /\ context = << >>
    /\ maxTokens = 0
    /\ trimmed = << >>
    /\ trimPc = "idle"

trimTokens ==
    /\ trimPc = "start"
    /\ trimmed' = TrimTokensOf(context, maxTokens)
    /\ trimPc' = "done"
    /\ UNCHANGED <<context, maxTokens>>
    /\ UNCHANGED <<compVars, csVars, dispVars, storeVars, miscVars>>

(***************************************************************************)
(* The completion service and the parsers of the typed wrappers.           *)
(***************************************************************************)
MaxBad == 6          \* bad answers (failures, unparseable texts) the service may give
MaxCtxBudget == 2    \* largest max_context_length tried for a completion call

Entries == {"completion", "messageCompletion", "booleanCompletion",
            "stringArrayCompletion", "objectArrayCompletion",
            "shouldRespondCompletion"}
Wrappers == Entries \ {"completion"}

\* what a successful response may carry as content (never empty)
Contents == {"YES", "NO", "[x]", "{x}", "RESPOND", "garbage"}

\* a request either fails (non-2xx, no content, network error) or carries content
Answers == Contents \cup {"FAIL"}

parseBooleanFromText(text) ==
    IF text = "YES" THEN "true" ELSE IF text = "NO" THEN "false" ELSE "null"

parseJsonArrayFromText(text) == IF text = "[x]" THEN "array:x" ELSE "null"

parseJSONObjectFromText(text) == IF text = "{x}" THEN "object:x" ELSE "null"

parseShouldRespondFromText(text) == IF text = "RESPOND" THEN "RESPOND" ELSE "null"

\* the parser each typed wrapper applies to the response
ParserOf(e, text) ==
    CASE e = "booleanCompletion"       -> parseBooleanFromText(text)
      [] e = "stringArrayCompletion"   -> parseJsonArrayFromText(text)
      [] e = "objectArrayCompletion"   -> parseJsonArrayFromText(text)
      [] e = "messageCompletion"       -> parseJSONObjectFromText(text)
      [] e = "shouldRespondCompletion" -> parseShouldRespondFromText(text)
      [] OTHER                         -> text

\* an answer that makes the entry point try again
IsBad(e, a) == a = "FAIL" \/ (e \in Wrappers /\ ParserOf(e, a) = "null")

\* faulty variant: the wrapper returns whatever the parser gave
ParseAcceptedAlways(parsed) == TRUE

\* if (parsedResponse) / if (parsedResponse !== null) / if (!parsedContent)
ParseAccepted(parsed) == parsed # "null"

\* faulty variant: one attempt too many
LoopContinuesOffByOne(t) == t >= 0

\* for (let triesLeft = 5; triesLeft > 0; triesLeft--)
LoopContinues(t) == t > 0

\* faulty variant: the wrapper lets the failure of completion through
AfterCatchPropagate(e) == "thrown"

\* the wrapper's catch block: log, then wait and loop
AfterCatch(e) == IF e = "messageCompletion" THEN "call" ELSE "wait"

\* faulty variant: the wrapper gives up on a response its parser rejects
AfterRejectGiveUp(e) == "thrown"

\* a rejected parse: messageCompletion continues at once, the others fall
\* through to the wait at the end of the loop body
AfterReject(e) == IF e = "messageCompletion" THEN "call" ELSE "wait"

\* no request sent yet
NoContext == <<"none">>

\* the log events counted: console.log("Sending request ..."), console.error
\* in the catch of completion, the wrapper's log of a rejected parse, and
\* console.error in the catch of a wrapper
NothingLogged == [sends |-> 0, errors |-> 0, rejects |-> 0, caught |-> 0]

\* whether the wrapper writes a log event when its parser rejects a response:
\* console.log("shouldRespondCompletion no response") and
\* console.log("parsedContent is null, retrying"); the other three have no
\* else branch
LogsRejectedParse(e) == e \in {"shouldRespondCompletion", "messageCompletion"}

CompIdle ==
    /\ entry = "none"
    /\ wpc = "idle"
    /\ cpc = "idle"
    /\ triesLeft = 0
    /\ retryLength = 0
    /\ retryDelay = 0
    /\ wRetryLength = 0
    /\ requests = 0
    /\ failures = 0
    /\ sentContext = NoContext
    /\ lastResponse = "none"
    /\ cResult = "none"
    /\ result = "none"
    /\ cWaits = << >>
    /\ wWaits = << >>
    /\ waitedSince = FALSE
    /\ gapless = FALSE
    /\ exhaustions = 0
    /\ rejected = 0
    /\ badLeft = 0
    /\ logged = << >>

(***************************************************************************)
(* completion: up to five remote attempts with a backoff between them.     *)
(***************************************************************************)
completionStart ==
    /\ \/ entry = "completion" /\ wpc = "begin"
       \/ entry \in Wrappers /\ wpc = "call"
    /\ wpc' = IF entry = "completion" THEN "direct" ELSE "await"
    /\ cpc' = "fetch"
    /\ retryLength' = 1000
    /\ triesLeft' = 5
    /\ requests' = 0
    /\ failures' = 0
    /\ cWaits' = << >>
    /\ cResult' = "none"
    /\ UNCHANGED <<entry, retryDelay, wRetryLength, sentContext, lastResponse,
                   result, wWaits, waitedSince, gapless, exhaustions, rejected,
                   badLeft, context, maxTokens>>
    /\ logged' = [logged EXCEPT !.sends = 0, !.errors = 0]
    /\ UNCHANGED <<trimmed, trimPc, csVars, dispVars, storeVars, miscVars>>

\* one pass through the try block: the request and the answer to it
completionFetch ==
    /\ cpc = "fetch"
    /\ \E a \in Answers :
        /\ IsBad(entry, a) => badLeft > 0
        /\ badLeft' = IF IsBad(entry, a) THEN badLeft - 1 ELSE badLeft
        /\ requests' = requests + 1
        /\ sentContext' = context
        /\ gapless' = (gapless \/ (sentContext # NoContext /\ ~waitedSince))
        /\ waitedSince' = FALSE
        /\ IF a = "FAIL"
           THEN /\ cpc' = "catch"
                /\ failures' = failures + 1
                /\ UNCHANGED <<lastResponse, cResult, result>>
           ELSE /\ cpc' = "returned"
                /\ lastResponse' = a
                /\ cResult' = a
                /\ result' = IF entry = "completion" THEN a ELSE result
                /\ UNCHANGED failures
    /\ UNCHANGED <<entry, wpc, triesLeft, retryLength, retryDelay, wRetryLength,
                   cWaits, wWaits, exhaustions, rejected, context, maxTokens>>
    /\ logged' = [logged EXCEPT !.sends = @ + 1]
    /\ UNCHANGED <<trimmed, trimPc, csVars, dispVars, storeVars, miscVars>>

\* the catch block, the loop step and, past the loop, the throw
completionCatch ==
    /\ cpc = "catch"
    /\ retryLength' = retryLength * 2
    /\ cWaits' = Append(cWaits, retryLength')
    /\ waitedSince' = TRUE
    /\ triesLeft' = triesLeft - 1
    /\ IF LoopContinues(triesLeft')
       THEN /\ cpc' = "fetch"
            /\ UNCHANGED <<cResult, result>>
       ELSE /\ cpc' = "thrown"
            /\ cResult' = "error"
            /\ result' = IF entry = "completion" THEN "error" ELSE result
    /\ UNCHANGED <<entry, wpc, retryDelay, wRetryLength, requests, failures,
                   sentContext, lastResponse, wWaits, gapless, exhaustions,
                   rejected, badLeft, context, maxTokens>>
    /\ logged' = [logged EXCEPT !.errors = @ + 1]
    /\ UNCHANGED <<trimmed, trimPc, csVars, dispVars, storeVars, miscVars>>

(***************************************************************************)
(* The typed wrappers: messageCompletion, booleanCompletion,               *)
(* stringArrayCompletion, objectArrayCompletion, shouldRespondCompletion.  *)
(***************************************************************************)
wrapperBegin ==
    /\ entry \in Wrappers
    /\ wpc = "begin"
    /\ wpc' = "call"
    /\ IF entry = "messageCompletion"
       THEN /\ context' = TrimTokensOf(context, maxTokens)
            /\ wRetryLength' = 1000
            /\ UNCHANGED retryDelay
       ELSE /\ retryDelay' = 1000
            /\ UNCHANGED <<context, wRetryLength>>
    /\ UNCHANGED <<entry, cpc, triesLeft, retryLength, requests, failures,
                   sentContext, lastResponse, cResult, result, cWaits, wWaits,
                   waitedSince, gapless, exhaustions, rejected, badLeft, maxTokens>>
    /\ UNCHANGED logged
    /\ UNCHANGED <<trimmed, trimPc, csVars, dispVars, storeVars, miscVars>>

\* completion returned: parse, and return the parsed value or go round again
wrapperParse ==
    /\ entry \in Wrappers
    /\ wpc = "await"
    /\ cpc = "returned"
    /\ LET parsed == ParserOf(entry, cResult)
       IN  IF ParseAccepted(parsed)
           THEN /\ wpc' = "returned"
                /\ result' = parsed
                /\ UNCHANGED rejected
           ELSE /\ wpc' = AfterReject(entry)
                /\ rejected' = rejected + 1
                /\ UNCHANGED result
    /\ cpc' = "idle"
    /\ UNCHANGED <<entry, triesLeft, retryLength, retryDelay, wRetryLength,
                   requests, failures, sentContext, lastResponse, cResult,
                   cWaits, wWaits, waitedSince, gapless, exhaustions, badLeft,
                   context, maxTokens>>
    /\ logged' = IF ~ParseAccepted(ParserOf(entry, cResult)) /\ LogsRejectedParse(entry)
               THEN [logged EXCEPT !.rejects = @ + 1]
               ELSE logged
    /\ UNCHANGED <<trimmed, trimPc, csVars, dispVars, storeVars, miscVars>>

\* completion threw: the wrapper's catch block
wrapperCatch ==
    /\ entry \in Wrappers
    /\ wpc = "await"
    /\ cpc = "thrown"
    /\ exhaustions' = exhaustions + 1
    /\ wpc' = AfterCatch(entry)
    /\ result' = IF wpc' = "thrown" THEN "error" ELSE result
    /\ IF entry = "messageCompletion" /\ wpc' # "thrown"
       THEN /\ wRetryLength' = wRetryLength * 2
            /\ wWaits' = Append(wWaits, wRetryLength')
            /\ waitedSince' = TRUE
       ELSE UNCHANGED <<wRetryLength, wWaits, waitedSince>>
    /\ cpc' = "idle"
    /\ UNCHANGED <<entry, triesLeft, retryLength, retryDelay, requests, failures,
                   sentContext, lastResponse, cResult, cWaits, gapless, rejected,
                   badLeft, context, maxTokens>>
    /\ logged' = [logged EXCEPT !.caught = @ + 1]
    /\ UNCHANGED <<trimmed, trimPc, csVars, dispVars, storeVars, miscVars>>

\* the wait that ends the loop body of the wrappers other than messageCompletion
wrapperWait ==
    /\ entry \in Wrappers
    /\ wpc = "wait"
    /\ wWaits' = Append(wWaits, retryDelay)
    /\ retryDelay' = retryDelay * 2
    /\ waitedSince' = TRUE
    /\ wpc' = "call"
    /\ UNCHANGED <<entry, cpc, triesLeft, retryLength, wRetryLength, requests,
                   failures, sentContext, lastResponse, cResult, result, cWaits,
                   gapless, exhaustions, rejected, badLeft, context, maxTokens>>
    /\ UNCHANGED logged
    /\ UNCHANGED <<trimmed, trimPc, csVars, dispVars, storeVars, miscVars>>

\* the service stops giving bad answers
serviceRecovers ==
    /\ badLeft > 0
    /\ wpc \notin {"returned", "thrown"}
    /\ cpc \notin {"returned", "thrown"} \/ entry \in Wrappers
    /\ badLeft' = 0
    /\ UNCHANGED <<entry, wpc, cpc, triesLeft, retryLength, retryDelay,
                   wRetryLength, requests, failures, sentContext, lastResponse,
                   cResult, result, cWaits, wWaits, waitedSince, gapless,
                   exhaustions, rejected, context, maxTokens>>
    /\ UNCHANGED logged
    /\ UNCHANGED <<trimmed, trimPc, csVars, dispVars, storeVars, miscVars>>

(***************************************************************************)
(* composeState.                                                           *)
(***************************************************************************)
MaxConversationLength == 4   \* largest conversationLength tried
MaxFacts == 4                \* most facts stored for the room
MaxExtraKeys == 2            \* most keys in additionalKeys

\* embeddings, reduced to one coordinate
Embeddings == {0, 1}

\* the facts namespace of a room, newest first; ids are unique
FactStores ==
    UNION {[1..n -> Embeddings] : n \in 0..MaxFacts}

FactsOf(embs) == [i \in 1..Len(embs) |-> [id |-> i, embedding |-> embs[i]]]

Min(a, b) == IF a < b THEN a ELSE b

Max(a, b) == IF a > b THEN a ELSE b

\* Array.prototype.slice and String.prototype.slice: zero-based, end excluded,
\* a negative index counts from the end
slice(s, start, end) ==
    LET n == Len(s)
        from == IF start < 0 THEN Max(n + start, 0) ELSE Min(start, n)
        to == IF end < 0 THEN Max(n + end, 0) ELSE Min(end, n)
    IN  IF from >= to THEN << >> ELSE SubSeq(s, from + 1, to)

\* MemoryManager.getMemories({roomId, count}): the count most recent records
getMemories(store, count) == SubSeq(store, 1, Min(count, Len(store)))

\* MemoryManager.searchMemoriesByEmbedding: by descending similarity, ties by
\* recency, at most count records
searchMemoriesByEmbedding(store, embedding, count) ==
    LET near == SelectSeq(store, LAMBDA f : f.embedding = embedding)
        far  == SelectSeq(store, LAMBDA f : f.embedding # embedding)
        ranked == near \o far
    IN  SubSeq(ranked, 1, Min(count, Len(ranked)))

\* Math.ceil(this.getConversationLength() / 2)
RecentFactsCount(cl) == (cl + 1) \div 2
RelevantFactsCount(cl) == (cl + 1) \div 2

FactIds(fs) == {fs[i].id : i \in DOMAIN fs}

\* faulty variant: the search runs on a full page and its result is used as it comes
RelevantFactsUnfiltered(recent, cl, store) ==
    IF Len(recent) >= RecentFactsCount(cl) /\ Len(recent) > 0
    THEN searchMemoriesByEmbedding(store, recent[1].embedding, RelevantFactsCount(cl))
    ELSE << >>

\* relevantFactsData: the search result less the facts of the recent page
RelevantFacts(recent, cl, store) ==
    IF Len(recent) > RecentFactsCount(cl)
    THEN SelectSeq(
             searchMemoriesByEmbedding(store, recent[1].embedding,
                                       RelevantFactsCount(cl)),
             LAMBDA fact : ~(\E i \in DOMAIN recent : recent[i].id = fact.id))
    ELSE << >>

\* the capability registries, in registration order
Actions == <<"FOLLOW_ROOM", "UNFOLLOW_ROOM", "UNMUTE_ROOM", "MUTE_ROOM">>
Evaluators == <<"FACT">>

Names(seq) == {seq[i] : i \in DOMAIN seq}

InitialStateKeys ==
    {"agentId", "agentName", "bio", "lore", "adjective",
     "recentMessageInteractions", "recentPostInteractions",
     "recentInteractionsData", "topic", "topics", "characterPostExamples",
     "characterMessageExamples", "messageDirections", "postDirections",
     "senderName", "actors", "actorsData", "roomId", "goals", "goalsData",
     "recentMessages", "recentPosts", "recentMessagesData", "recentFacts",
     "recentFactsData", "relevantFacts", "relevantFactsData", "attachments"}

ActionStateKeys ==
    {"actionNames", "actions", "actionExamples", "evaluatorsData", "evaluators",
     "evaluatorNames", "evaluatorExamples", "providers"}

\* keys a caller may pass in additionalKeys: names of computed fields of both
\* groups and one name of its own
CallerKeys == {"bio", "recentFactsData", "actions", "providers", "custom"}

\* a value of the state: who supplied it, and the facts or names it holds
Value(origin, facts, names) ==
    [origin |-> origin, facts |-> facts, names |-> names, items |-> << >>]

\* a value holding messages or attachments
ItemsValue(origin, items) ==
    [origin |-> origin, facts |-> << >>, names |-> << >>, items |-> items]

CallerValue == Value("caller", << >>, << >>)

AdditionalKeySets ==
    {[k \in ks |-> CallerValue] : ks \in {x \in SUBSET CallerKeys : Cardinality(x) <= MaxExtraKeys}}

\* { ...a, ...b }: the keys of both, b's value where both have one
Spread(a, b) ==
    [k \in (DOMAIN a) \cup (DOMAIN b) |-> IF k \in DOMAIN b THEN b[k] ELSE a[k]]

\* the computed fields of initialState, before ...additionalKeys
InitialFields(recent, relevant, messages, attachments) ==
    [k \in InitialStateKeys |->
        CASE k = "recentFactsData"    -> Value("computed", recent, << >>)
          [] k = "relevantFactsData"  -> Value("computed", relevant, << >>)
          [] k = "recentMessagesData" -> ItemsValue("computed", messages)
          [] k = "attachments"        -> ItemsValue("computed", attachments)
          [] OTHER                    -> Value("computed", << >>, << >>)]

\* faulty variant: nothing is filtered out of the resolved list
ValidatedUnfiltered(registry, ok) == registry

\* resolved.filter(Boolean): the validated ones, in registration order
Validated(registry, ok) == SelectSeq(registry, LAMBDA n : n \in ok)

\* the permutations of 1..n
Orders(n) ==
    {q \in [1..n -> 1..n] : \A i \in 1..n : \A j \in 1..n : i # j => q[i] # q[j]}

\* faulty variant: the results of a join in the order the branches completed
JoinResultsAsCompleted(results, order) ==
    [i \in DOMAIN results |-> results[order[i]]]

\* await Promise.all(promises): the results in the order of the promises,
\* whatever the order in which they settled
JoinResults(results, order) == results

ActionState(ok, order) ==
    [k \in ActionStateKeys |->
        CASE k \in {"actionNames", "actions", "actionExamples"} ->
                 Value("computed", << >>,
                       Validated(JoinResults(Actions, order), ok))
          [] k \in {"evaluatorsData", "evaluators", "evaluatorNames",
                    "evaluatorExamples"} ->
                 Value("computed", << >>, Validated(Evaluators, ok))
          [] OTHER -> Value("computed", << >>, << >>)]

\* return { ...initialState, ...actionState }
ReturnedState(initial, actionState) == Spread(initial, actionState)

(***************************************************************************)
(* The recent messages and their attachments.                              *)
(***************************************************************************)
MaxMessages == 3     \* most messages stored for the room
MaxHours == 1        \* latest createdAt, in hours

OneHour == 3600000   \* 60 * 60 * 1000

HiddenMarker == "[Hidden]"

\* createdAt values: on the hour and one millisecond past it
Times == {h * OneHour + e : h \in 0..MaxHours, e \in 0..1}

Attachment(id) == [id |-> id, text |-> "text"]

\* the messages namespace of a room, newest first: message i has id i and at
\* most one attachment
MessageStores ==
    UNION {{[i \in 1..n |-> [id |-> i, createdAt |-> ts[i],
                             attachments |-> IF i \in att THEN <<Attachment(i)>>
                                             ELSE << >>]] :
                ts \in {t \in [1..n -> Times] :
                           \A i \in 1..n : \A j \in 1..n : i < j => t[i] >= t[j]},
                att \in SUBSET (1..n)} :
           n \in 0..MaxMessages}

RECURSIVE Flat(_)
Flat(ss) == IF ss = << >> THEN << >> ELSE Head(ss) \o Flat(Tail(ss))

HasAttachments(msg) == Len(msg.attachments) > 0

\* recentMessagesData.find(msg => attachments non-empty): its index, or 0
LastMessageWithAttachment(msgs) ==
    IF \E i \in DOMAIN msgs : HasAttachments(msgs[i])
    THEN CHOOSE i \in DOMAIN msgs :
            /\ HasAttachments(msgs[i])
            /\ \A j \in DOMAIN msgs : HasAttachments(msgs[j]) => i <= j
    ELSE 0

\* faulty variant: a message exactly one hour older is taken as stale
IsWithinTimeStrict(msgTime, oneHourBeforeLastMessage) ==
    msgTime > oneHourBeforeLastMessage

\* const isWithinTime = msgTime >= oneHourBeforeLastMessage
IsWithinTime(msgTime, oneHourBeforeLastMessage) ==
    msgTime >= oneHourBeforeLastMessage

\* attachments.forEach(attachment => attachment.text = "[Hidden]")
HideAttachments(msg) ==
    [msg EXCEPT !.attachments =
        [j \in DOMAIN msg.attachments |->
            [msg.attachments[j] EXCEPT !.text = HiddenMarker]]]

\* the attachment pass: the array is reversed in place, the attachments of
\* stale messages are overwritten, and all attachments are listed
AttachmentPass(msgs, incoming) ==
    LET last == LastMessageWithAttachment(msgs)
    IN  IF last = 0
        THEN [messages |-> msgs, attachments |-> incoming]
        ELSE LET oneHourBeforeLastMessage == msgs[last].createdAt - OneHour
                 reversed == Reverse(msgs)
                 passed == [k \in DOMAIN reversed |->
                              IF IsWithinTime(reversed[k].createdAt,
                                              oneHourBeforeLastMessage)
                              THEN reversed[k]
                              ELSE HideAttachments(reversed[k])]
             IN  [messages |-> passed,
                  attachments |-> Flat([k \in DOMAIN passed |-> passed[k].attachments])]

(***************************************************************************)
(* The two joins of composeState.                                          *)
(***************************************************************************)
ReadBranches == {"actors", "messages", "facts", "goals"}

ValidateBranches == Names(Actions) \cup Names(Evaluators) \cup {"providers"}

\* the failures a join may see: none, one branch, or all of them
FailureSets(branches) == {{}} \cup {{b} : b \in branches} \cup {branches}

\* faulty variant: the join goes on with what the other branches gave
JoinProceedsSettled(failed) == TRUE

\* await Promise.all([...]): rejects as soon as one branch rejects
JoinProceeds(failed) == failed = {}

NoState == << >>

(***************************************************************************)
(* The character's lists.  An element is named by the position it had when *)
(* the character was loaded.                                               *)
(***************************************************************************)
MaxListLen == 2      \* longest list of the character

\* a character whose lists all have n elements
CharacterWith(n) ==
    [f \in {"bio", "lore", "topics", "postExamples", "messageExamples"} |->
        [i \in 1..n |-> i]]

\* the orders an array may be left in by sort(() => 0.5 - Math.random())
Shuffles(list) ==
    {[i \in DOMAIN list |-> list[p[i]]] :
        p \in {q \in [DOMAIN list -> DOMAIN list] :
                  \A i \in DOMAIN list : \A j \in DOMAIN list : i # j => q[i] # q[j]}}

\* the lists composeState sorts as they are; lore is copied before its sort
SortedFields == {"bio", "topics", "postExamples", "messageExamples"}

\* the character after composeState formatted its lists
SortedInPlace(c) ==
    {[f \in DOMAIN c |-> IF f \in SortedFields THEN d[f] ELSE c[f]] :
        d \in {e \in [SortedFields -> UNION {Shuffles(c[f]) : f \in SortedFields}] :
                  \A f \in SortedFields : e[f] \in Shuffles(c[f])}}

\* a character that also has style lists, of m elements each
CharacterStyled(n, m) ==
    [f \in {"bio", "lore", "topics", "postExamples", "messageExamples",
            "style.all", "style.chat", "style.post"} |->
        CASE f = "style.all" -> [i \in 1..m |-> 10 + i]
          [] f = "style.chat" -> [i \in 1..m |-> 20 + i]
          [] f = "style.post" -> [i \in 1..m |-> 30 + i]
          [] OTHER -> [i \in 1..n |-> i]]

\* this.character?.style?.all || [], and the like
StyleOf(c, part) == IF part \in DOMAIN c THEN c[part] ELSE << >>

SampledKeys ==
    {"bio", "lore", "topics", "characterPostExamples", "characterMessageExamples",
     "messageDirections", "postDirections"}

\* the second argument of each slice(0, ...); a fractional end is truncated
SampleSize(key, length) ==
    CASE key = "bio" -> 3
      [] key = "lore" -> 10
      [] key = "topics" -> 5
      [] key = "characterMessageExamples" -> 5
      [] key = "characterPostExamples" -> 50
      [] key \in {"messageDirections", "postDirections"} -> length \div 2

\* the list of the character each field is sampled from
SourceList(c, key) ==
    CASE key = "bio" -> c["bio"]
      [] key = "lore" -> c["lore"]
      [] key = "topics" -> c["topics"]
      [] key = "characterMessageExamples" -> c["messageExamples"]
      [] key = "characterPostExamples" -> c["postExamples"]
      [] key = "messageDirections" -> StyleOf(c, "style.all") \o StyleOf(c, "style.chat")
      [] key = "postDirections" -> StyleOf(c, "style.all") \o StyleOf(c, "style.post")

\* const allSliced = shuffled.slice(0, conversationLength / 2);
\* return allSliced.concat(allSliced)
MessageDirections(shuffled, length) ==
    LET allSliced == slice(shuffled, 0, SampleSize("messageDirections", length))
    IN  allSliced \o allSliced

\* the sampled fields composeState may put in the state, sorted being the
\* character after the in-place sorts
SampledFields(sorted, length) ==
    {[key \in SampledKeys |->
         CASE key = "lore" -> slice(shuffledLore, 0, SampleSize(key, length))
           [] key = "messageDirections" -> MessageDirections(shuffledChat, length)
           [] key = "postDirections" -> slice(shuffledPost, 0, SampleSize(key, length))
           [] OTHER -> slice(SourceList(sorted, key), 0, SampleSize(key, length))] :
        shuffledLore \in Shuffles(SourceList(sorted, "lore")),
        shuffledChat \in Shuffles(SourceList(sorted, "messageDirections")),
        shuffledPost \in Shuffles(SourceList(sorted, "postDirections"))}

\* the branches complete in the order they were started
RegistrationOrder == [reads |-> <<1, 2, 3, 4>>, validates |-> <<1, 2, 3, 4>>]

\* the orders in which the branches of the two joins may complete
CompletionOrders ==
    [reads : Orders(Cardinality(ReadBranches)), validates : Orders(Len(Actions))]

\* the results of the first join: actors, messages, facts, goals
ReadResultsOf(failed, messages, facts) ==
    <<ItemsValue("actors", << >>),
      ItemsValue("messages", IF "messages" \in failed THEN << >> ELSE messages),
      Value("facts", IF "facts" \in failed THEN << >> ELSE facts, << >>),
      ItemsValue("goals", << >>)>>

CsIdle ==
    /\ csPc = "idle"
    /\ conversationLength = 0
    /\ factStore = << >>
    /\ additionalKeys = << >>
    /\ validated = {}
    /\ recentFactsData = << >>
    /\ relevantFactsData = << >>
    /\ searchIssued = FALSE
    /\ searchQuery = 0
    /\ initialState = << >>
    /\ state = NoState
    /\ messageStore = << >>
    /\ message = << >>
    /\ recentMessagesData = << >>
    /\ allAttachments = << >>
    /\ csFailed = {}
    /\ character = << >>
    /\ csOrder = << >>
    /\ sampled = << >>

\* the first join: actors, recent messages, recent facts, goals
composeReads ==
    /\ csPc = "start"
    /\ \E failed \in FailureSets(ReadBranches) :
        /\ csFailed' = failed
        /\ IF JoinProceeds(failed)
           THEN /\ LET results ==
                         JoinResults(
                             ReadResultsOf(failed,
                                 getMemories(messageStore, conversationLength),
                                 getMemories(factStore,
                                             RecentFactsCount(conversationLength))),
                             csOrder.reads)
                   IN  /\ recentMessagesData' = results[2].items
                       /\ recentFactsData' = results[3].facts
                /\ csPc' = "facts"
           ELSE /\ csPc' = "failed"
                /\ UNCHANGED <<recentFactsData, recentMessagesData>>
    /\ UNCHANGED <<conversationLength, factStore, additionalKeys, validated,
                   relevantFactsData, searchIssued, searchQuery, initialState,
                   state, messageStore, message, allAttachments, character,
                   csOrder, sampled>>
    /\ UNCHANGED <<trimVars, compVars, dispVars, storeVars, miscVars>>

\* the similarity search over facts, when the guard lets it run
composeRelevantFacts ==
    /\ csPc = "facts"
    /\ searchIssued' = (Len(recentFactsData) > RecentFactsCount(conversationLength))
    /\ searchQuery' = IF searchIssued' THEN recentFactsData[1].embedding ELSE searchQuery
    /\ relevantFactsData' = RelevantFacts(recentFactsData, conversationLength, factStore)
    /\ csPc' = "initial"
    /\ UNCHANGED <<conversationLength, factStore, additionalKeys, validated,
                   recentFactsData, initialState, state, messageStore, message,
                   recentMessagesData, allAttachments, csFailed, character,
                   csOrder, sampled>>
    /\ UNCHANGED <<trimVars, compVars, dispVars, storeVars, miscVars>>

\* the attachment pass and initialState = { ...computed fields, ...additionalKeys }
composeInitialState ==
    /\ csPc = "initial"
    /\ LET pass == AttachmentPass(recentMessagesData, message)
       IN  /\ recentMessagesData' = pass.messages
           /\ allAttachments' = pass.attachments
           /\ initialState' =
                 Spread(InitialFields(recentFactsData, relevantFactsData,
                                      pass.messages, pass.attachments),
                        additionalKeys)
    /\ \E shuffled \in SortedInPlace(character) :
          /\ character' = shuffled
          /\ \E fields \in SampledFields(shuffled, conversationLength) :
                sampled' = fields
    /\ csPc' = "validate"
    /\ UNCHANGED <<conversationLength, factStore, additionalKeys, validated,
                   recentFactsData, relevantFactsData, searchIssued, searchQuery,
                   state, messageStore, message, csFailed, csOrder>>
    /\ UNCHANGED <<trimVars, compVars, dispVars, storeVars, miscVars>>

\* the second join (validate of every action and evaluator, the providers),
\* actionState and the returned state
composeValidate ==
    /\ csPc = "validate"
    /\ \E failed \in FailureSets(ValidateBranches) :
        /\ csFailed' = failed
        /\ IF JoinProceeds(failed)
           THEN /\ \E ok \in SUBSET ((Names(Actions) \cup Names(Evaluators)) \ failed) :
                     /\ validated' = ok
                     /\ state' = ReturnedState(initialState, ActionState(ok, csOrder.validates))
                /\ csPc' = "done"
           ELSE /\ csPc' = "failed"
                /\ UNCHANGED <<validated, state>>
    /\ UNCHANGED <<conversationLength, factStore, additionalKeys,
                   recentFactsData, relevantFactsData, searchIssued, searchQuery,
                   initialState, messageStore, message, recentMessagesData,
                   allAttachments, character, csOrder, sampled>>
    /\ UNCHANGED <<trimVars, compVars, dispVars, storeVars, miscVars>>

(***************************************************************************)
(* evaluate: the evaluators that validate are offered to the model, and    *)
(* the handlers of the evaluators it names are run.                        *)
(***************************************************************************)
MaxEvaluators == 2   \* most evaluators registered

\* the evaluators that may be registered: name, whether a handler is set
EvaluatorPool ==
    {[name |-> "FACT", handler |-> TRUE],
     [name |-> "GOAL", handler |-> TRUE],
     [name |-> "NOTE", handler |-> FALSE]}

EvaluatorRegistries ==
    {r \in SeqsUpTo(EvaluatorPool, MaxEvaluators) :
        \A i \in DOMAIN r : \A j \in DOMAIN r : i # j => r[i] # r[j]}

\* the names the model's answer may hold
AnswerNames == {e.name : e \in EvaluatorPool} \cup {"OTHER"}

\* resolvedEvaluators.filter(Boolean): with a handler and validate true
ValidatedEvaluators(registry, valid) ==
    SelectSeq(registry, LAMBDA e : e.handler /\ e.name \in valid)

\* this.evaluators.filter(evaluator => parsedResult?.includes(evaluator.name))
NamedEvaluators(registry, named) ==
    SelectSeq(registry, LAMBDA e : e.name \in named)

\* forEach: if (!evaluator?.handler) return; evaluator.handler(this, message)
HandlersOf(evs) ==
    LET withHandler == SelectSeq(evs, LAMBDA e : e.handler)
    IN  [i \in DOMAIN withHandler |-> withHandler[i].name]

EvIdle ==
    /\ evPc = "idle"
    /\ evaluators = << >>
    /\ evValid = {}
    /\ evaluatorsData = << >>
    /\ parsedResult = {}
    /\ evHandlerCalls = << >>
    /\ evOutcome = "none"

evRest == <<trimVars, compVars, csVars, paVars, storeVars, miscVars>>

\* every evaluator with a handler is validated; with none left, return []
evValidate ==
    /\ evPc = "start"
    /\ evaluatorsData' = ValidatedEvaluators(evaluators, evValid)
    /\ IF evaluatorsData' = << >>
       THEN evPc' = "done" /\ evOutcome' = "returned"
       ELSE evPc' = "complete" /\ UNCHANGED evOutcome
    /\ UNCHANGED <<evaluators, evValid, parsedResult, evHandlerCalls>>
    /\ UNCHANGED evRest

\* this.completion and parseJsonArrayFromText: the completion throws, or its
\* text holds no array, or it holds an array of names
evComplete ==
    /\ evPc = "complete"
    /\ \/ /\ evPc' = "done"
          /\ evOutcome' = "thrown"
          /\ UNCHANGED parsedResult
       \/ /\ evPc' = "run"
          /\ evOutcome' = "returned null"
          /\ UNCHANGED parsedResult
       \/ /\ evPc' = "run"
          /\ parsedResult' \in SUBSET AnswerNames
          /\ UNCHANGED evOutcome
    /\ UNCHANGED <<evaluators, evValid, evaluatorsData, evHandlerCalls>>
    /\ UNCHANGED evRest

\* the handlers of the registered evaluators named in the answer are called
evRun ==
    /\ evPc = "run"
    /\ evHandlerCalls' =
          HandlersOf(NamedEvaluators(evaluators, parsedResult))
    /\ evOutcome' = IF evOutcome = "none" THEN "returned" ELSE evOutcome
    /\ evPc' = "done"
    /\ UNCHANGED <<evaluators, evValid, evaluatorsData, parsedResult>>
    /\ UNCHANGED evRest

(***************************************************************************)
(* processActions: the action named by the first response is looked up in  *)
(* this.actions and its handler is called.  Names are sequences of         *)
(* characters.                                                             *)
(***************************************************************************)
MaxActions == 3      \* most actions registered
MaxResponses == 2    \* most responses handed to processActions

UpperCase == <<"A", "B", "C", "D", "E", "F", "G", "H", "I", "J", "K", "L", "M", "N", "O", "P", "Q", "R", "S", "T", "U", "V", "W", "X", "Y", "Z">>
LowerCase == <<"a", "b", "c", "d", "e", "f", "g", "h", "i", "j", "k", "l", "m", "n", "o", "p", "q", "r", "s", "t", "u", "v", "w", "x", "y", "z">>

\* String.toLowerCase
toLowerCase(str) ==
    [i \in DOMAIN str |->
        IF \E k \in DOMAIN UpperCase : UpperCase[k] = str[i]
        THEN LowerCase[CHOOSE k \in DOMAIN UpperCase : UpperCase[k] = str[i]]
        ELSE str[i]]

\* String.replace("_", ""): the first underscore only
replaceUnderscore(str) ==
    IF \E i \in DOMAIN str : str[i] = "_"
    THEN LET i == CHOOSE k \in DOMAIN str :
                     str[k] = "_" /\ \A j \in 1..(k - 1) : str[j] # "_"
         IN  SubSeq(str, 1, i - 1) \o SubSeq(str, i + 1, Len(str))
    ELSE str

\* name.toLowerCase().replace("_", "")
Normalize(str) == replaceUnderscore(toLowerCase(str))

\* String.includes
includes(str, part) ==
    \E i \in 0..(Len(str) - Len(part)) : SubSeq(str, i + 1, i + Len(part)) = part

\* the containment test of a registered name or simile against the chosen name
Matches(name, chosen) ==
    includes(Normalize(name), chosen) \/ includes(chosen, Normalize(name))

FOLLOW_ROOM == <<"F", "O", "L", "L", "O", "W", "_", "R", "O", "O", "M">>
UNFOLLOW_ROOM == <<"U", "N", "F", "O", "L", "L", "O", "W", "_", "R", "O", "O", "M">>
MUTE_ROOM == <<"M", "U", "T", "E", "_", "R", "O", "O", "M">>
IGNORE == <<"I", "G", "N", "O", "R", "E">>
NONE == <<"N", "O", "N", "E">>

\* the actions that may be registered: name, similes, whether a handler is set
ActionPool ==
    {[name |-> FOLLOW_ROOM, similes |-> <<<<"F", "O", "L", "L", "O", "W">>>>, handler |-> TRUE],
     [name |-> UNFOLLOW_ROOM, similes |-> <<<<"L", "E", "A", "V", "E">>, <<"S", "T", "O", "P">>>>, handler |-> TRUE],
     [name |-> MUTE_ROOM, similes |-> << >>, handler |-> TRUE],
     [name |-> IGNORE, similes |-> <<<<"S", "T", "O", "P">>, <<"M", "U", "T", "E">>>>, handler |-> TRUE],
     [name |-> NONE, similes |-> << >>, handler |-> FALSE]}

\* registries: sequences of distinct actions of the pool
Registries ==
    {r \in SeqsUpTo(ActionPool, MaxActions) :
        \A i \in DOMAIN r : \A j \in DOMAIN r : i # j => r[i] # r[j]}

NoActionName == << >>    \* content.action undefined or ""

\* the names the model may put in content.action of the first response
ChosenNames ==
    {NoActionName, <<"f", "o", "l", "l", "o", "w", "_", "r", "o", "o", "m">>, FOLLOW_ROOM, UNFOLLOW_ROOM, <<"u", "n", "f", "o", "l", "l", "o", "w", "_", "r", "o", "o", "m">>, <<"m", "u", "t", "e", "_", "r", "o", "o", "m">>,
     <<"s", "t", "o", "p">>, <<"n", "o", "n", "e">>, <<"u", "n", "k", "n", "o", "w", "n", "_", "a", "c", "t", "i", "o", "n", "_", "x", "y", "z">>}

\* the lists of responses: the responses after the first carry an action or not
ResponseLists ==
    {<< >>} \cup
    {<<c>> \o rest : c \in ChosenNames,
                     rest \in SeqsUpTo({NoActionName, MUTE_ROOM}, MaxResponses - 1)}

FirstIndex(S) == IF S = {} THEN 0 ELSE CHOOSE i \in S : \A j \in S : i <= j

\* the registered actions whose name passes the containment test
NameMatches(acts, chosen) == {i \in DOMAIN acts : Matches(acts[i].name, chosen)}

\* the registered actions with a simile that passes the containment test
SimileMatches(acts, chosen) ==
    {i \in DOMAIN acts :
        \E k \in DOMAIN acts[i].similes : Matches(acts[i].similes[k], chosen)}

\* faulty variant: names and similes are tried together, action by action
FindActionNameOrSimile(acts, chosen) ==
    FirstIndex(NameMatches(acts, chosen) \cup SimileMatches(acts, chosen))

\* this.actions.find(name test), else the first action with a matching simile
FindAction(acts, chosen) ==
    IF NameMatches(acts, chosen) # {}
    THEN FirstIndex(NameMatches(acts, chosen))
    ELSE FirstIndex(SimileMatches(acts, chosen))

\* faulty variant: a chosen name that matches nothing is an error
NoActionFoundThrows == "thrown"

\* return console.warn("No action found for", ...)
NoActionFound == "returned"

RECURSIVE SetToSeq(_)
SetToSeq(S) ==
    IF S = {} THEN << >>
    ELSE LET i == FirstIndex(S) IN <<i>> \o SetToSeq(S \ {i})

\* faulty variant: every action whose name or simile matches is run
HandlersRunAllMatches(acts, chosen, sel) ==
    SetToSeq({i \in NameMatches(acts, chosen) \cup SimileMatches(acts, chosen) :
                 acts[i].handler})

\* await action.handler(this, message, state, {}, callback)
HandlersRun(acts, chosen, sel) == <<sel>>

PaIdle ==
    /\ paPc = "idle"
    /\ actions = << >>
    /\ responses = << >>
    /\ applicable = {}
    /\ normalizedAction = << >>
    /\ selected = 0
    /\ handlerCalls = << >>
    /\ paOutcome = "none"

DispIdle == PaIdle /\ EvIdle

paRest == <<trimVars, compVars, csVars, evVars, storeVars, miscVars>>

\* responses[0] of an empty list is undefined: reading .content throws
paNoResponse ==
    /\ paPc = "start"
    /\ responses = << >>
    /\ paPc' = "done"
    /\ paOutcome' = "thrown"
    /\ UNCHANGED <<actions, responses, applicable, normalizedAction, selected,
                   handlerCalls>>
    /\ UNCHANGED paRest

\* if (!responses[0].content?.action) return
paNoAction ==
    /\ paPc = "start"
    /\ responses # << >>
    /\ responses[1] = NoActionName
    /\ paPc' = "done"
    /\ paOutcome' = "returned"
    /\ UNCHANGED <<actions, responses, applicable, normalizedAction, selected,
                   handlerCalls>>
    /\ UNCHANGED paRest

\* the chosen name is normalized and looked up by name, then by simile
paFind ==
    /\ paPc = "start"
    /\ responses # << >>
    /\ responses[1] # NoActionName
    /\ normalizedAction' = Normalize(responses[1])
    /\ selected' = FindAction(actions, normalizedAction')
    /\ paPc' = "selected"
    /\ UNCHANGED <<actions, responses, applicable, handlerCalls, paOutcome>>
    /\ UNCHANGED paRest

\* if (!action) return console.warn(...)
paNotFound ==
    /\ paPc = "selected"
    /\ selected = 0
    /\ paPc' = "done"
    /\ paOutcome' = NoActionFound
    /\ UNCHANGED <<actions, responses, applicable, normalizedAction, selected,
                   handlerCalls>>
    /\ UNCHANGED paRest

\* if (!action.handler) return
paNoHandler ==
    /\ paPc = "selected"
    /\ selected # 0
    /\ ~actions[selected].handler
    /\ paPc' = "done"
    /\ paOutcome' = "returned"
    /\ UNCHANGED <<actions, responses, applicable, normalizedAction, selected,
                   handlerCalls>>
    /\ UNCHANGED paRest

\* the handler of the action found is awaited; its rejection is the caller's
paHandler ==
    /\ paPc = "selected"
    /\ selected # 0
    /\ actions[selected].handler
    /\ handlerCalls' = handlerCalls \o HandlersRun(actions, normalizedAction, selected)
    /\ \E ok \in BOOLEAN : paOutcome' = IF ok THEN "returned" ELSE "thrown"
    /\ paPc' = "done"
    /\ UNCHANGED <<actions, responses, applicable, normalizedAction, selected>>
    /\ UNCHANGED paRest

(***************************************************************************)
(* ensureUserExists, ensureRoomExists, ensureParticipantInRoom, as called  *)
(* by the reaction handlers of a connector.  Each reads the store, awaits  *)
(* the answer, and creates what the answer said was missing.               *)
(***************************************************************************)
MaxHandlers == 2     \* handlers running at the same time

Handlers == 1..MaxHandlers

AgentId == "agent"
UserIds == {"user1", "user2"}
RoomIds == {"room1", "room2"}

\* await Promise.all([ensureUserExists(agentId), ensureUserExists(userIdUUID),
\* ensureRoomExists(roomId)])
FirstJoin == {"ensureUserExists(agent)", "ensureUserExists(user)", "ensureRoomExists"}

\* await Promise.all([ensureParticipantInRoom(userIdUUID, roomId),
\* ensureParticipantInRoom(agentId, roomId)])
SecondJoin == {"ensureParticipantInRoom(user)", "ensureParticipantInRoom(agent)"}

EnsureCalls == FirstJoin \cup SecondJoin

\* the key a call of a handler is about
KeyOf(h, call) ==
    CASE call = "ensureUserExists(agent)" -> <<"account", AgentId, "-">>
      [] call = "ensureUserExists(user)" -> <<"account", enUser[h], "-">>
      [] call = "ensureRoomExists" -> <<"room", enRoom[h], "-">>
      [] call = "ensureParticipantInRoom(user)" -> <<"participant", enUser[h], enRoom[h]>>
      [] call = "ensureParticipantInRoom(agent)" -> <<"participant", AgentId, enRoom[h]>>

EnsureKeys ==
    {<<"account", u, "-">> : u \in UserIds \cup {AgentId}}
    \cup {<<"room", r, "-">> : r \in RoomIds}
    \cup {<<"participant", u, r>> : u \in UserIds \cup {AgentId}, r \in RoomIds}

\* getAccountById, getRoom, getParticipantsForRoom(roomId).includes(userId)
InStore(key) ==
    CASE key[1] = "account" -> key[2] \in accounts
      [] key[1] = "room" -> key[2] \in rooms
      [] key[1] = "participant" -> <<key[2], key[3]>> \in participants

\* the second join starts when the first has settled
Started(h, call) ==
    call \in SecondJoin => \A c \in FirstJoin : enPc[h][c] = "done"

EnIdle ==
    /\ enUser = << >>
    /\ enRoom = << >>
    /\ enPc = << >>
    /\ accounts = {}
    /\ rooms = {}
    /\ participants = {}
    /\ createCalls = << >>

enRest == <<trimVars, compVars, csVars, dispVars, emVars, miscVars>>

\* const account = await getAccountById(userId), and the like: the read
ensureRead(h, call) ==
    /\ enPc[h][call] = "todo"
    /\ Started(h, call)
    /\ enPc' = [enPc EXCEPT ![h][call] =
                   IF InStore(KeyOf(h, call)) THEN "found" ELSE "missing"]
    /\ UNCHANGED <<enUser, enRoom, accounts, rooms, participants, createCalls>>
    /\ UNCHANGED enRest

\* if (!account) await createAccount(...), and the like: the write
ensureCreate(h, call) ==
    /\ enPc[h][call] = "missing"
    /\ LET key == KeyOf(h, call)
       IN  /\ createCalls' = [createCalls EXCEPT ![key] = @ + 1]
           /\ accounts' = IF key[1] = "account" THEN accounts \cup {key[2]} ELSE accounts
           /\ rooms' = IF key[1] = "room" THEN rooms \cup {key[2]} ELSE rooms
           /\ participants' = IF key[1] = "participant"
                              THEN participants \cup {<<key[2], key[3]>>}
                              ELSE participants
    /\ enPc' = [enPc EXCEPT ![h][call] = "done"]
    /\ UNCHANGED <<enUser, enRoom>>
    /\ UNCHANGED enRest

\* the read found the record: nothing to create
ensureFound(h, call) ==
    /\ enPc[h][call] = "found"
    /\ enPc' = [enPc EXCEPT ![h][call] = "done"]
    /\ UNCHANGED <<enUser, enRoom, accounts, rooms, participants, createCalls>>
    /\ UNCHANGED enRest

ensureReads == \E h \in Handlers : \E call \in EnsureCalls : ensureRead(h, call)
ensureCreates == \E h \in Handlers : \E call \in EnsureCalls : ensureCreate(h, call)
ensureFinds == \E h \in Handlers : \E call \in EnsureCalls : ensureFound(h, call)

(***************************************************************************)
(* embed: with no API key the local service is asked; with a key the       *)
(* embedding stored with a message of the same text is reused, else the    *)
(* remote service is asked.                                                *)
(***************************************************************************)
MaxEmbedCalls == 2   \* calls of embed, one after the other

EmbedInputs == {"x", "y"}

\* the vector an embedding service computes for a text
ServiceVector(input) == IF input = "x" THEN "vector of x" ELSE "vector of y"

ZeroVector == "zero vector"
NoVector == "none"
EmbedError == "error"

\* what may be stored with a message of a text: nothing, the text's own
\* embedding, or the zero vector
StoredVectors(input) == {NoVector, ServiceVector(input), ZeroVector}

\* MemoryManager.getCachedEmbeddings(input): the records of the messages whose
\* text is the input
getCachedEmbeddings(store, input) ==
    IF store[input] = NoVector THEN << >> ELSE <<[embedding |-> store[input]]>>

\* similaritySearchResult[0].embedding when a record is found, else null
retrieveCachedEmbedding(store, input) ==
    LET similaritySearchResult == getCachedEmbeddings(store, input)
    IN  IF Len(similaritySearchResult) > 0
        THEN similaritySearchResult[1].embedding
        ELSE NoVector

EmIdle ==
    /\ emPc = "idle"
    /\ hasKey = FALSE
    /\ cachedEmbeddings = << >>
    /\ emInput = "none"
    /\ emCalls = << >>
    /\ emRequests = << >>

StoreIdle == EnIdle /\ EmIdle

emRest == <<trimVars, compVars, csVars, dispVars, enVars, miscVars>>

Returned(input, value) == [input |-> input, value |-> value]

\* a caller calls embed(input)
embedCall ==
    /\ emPc = "ready"
    /\ Len(emCalls) < MaxEmbedCalls
    /\ \E input \in EmbedInputs : emInput' = input
    /\ emPc' = "start"
    /\ UNCHANGED <<hasKey, cachedEmbeddings, emCalls, emRequests>>
    /\ UNCHANGED emRest

\* no OPENAI_API_KEY: return await llamaService.getEmbeddingResponse(input)
embedLocal ==
    /\ emPc = "start"
    /\ ~hasKey
    /\ emRequests' = [emRequests EXCEPT ![emInput] = @ + 1]
    /\ emCalls' = Append(emCalls, Returned(emInput, ServiceVector(emInput)))
    /\ emPc' = "ready"
    /\ UNCHANGED <<hasKey, cachedEmbeddings, emInput>>
    /\ UNCHANGED emRest

\* retrieveCachedEmbedding(input): returned when it finds one
embedCached ==
    /\ emPc = "start"
    /\ hasKey
    /\ LET cachedEmbedding == retrieveCachedEmbedding(cachedEmbeddings, emInput)
       IN  IF cachedEmbedding # NoVector
           THEN /\ emCalls' = Append(emCalls, Returned(emInput, cachedEmbedding))
                /\ emPc' = "ready"
           ELSE /\ emPc' = "fetch"
                /\ UNCHANGED emCalls
    /\ UNCHANGED <<hasKey, cachedEmbeddings, emInput, emRequests>>
    /\ UNCHANGED emRest

\* fetch(serverUrl + "/embeddings"): the vector, or an error when not ok
embedFetch ==
    /\ emPc = "fetch"
    /\ emRequests' = [emRequests EXCEPT ![emInput] = @ + 1]
    /\ \E ok \in BOOLEAN :
          emCalls' = Append(emCalls, Returned(emInput,
                               IF ok THEN ServiceVector(emInput) ELSE EmbedError))
    /\ emPc' = "ready"
    /\ UNCHANGED <<hasKey, cachedEmbeddings, emInput>>
    /\ UNCHANGED emRest

(***************************************************************************)
(* splitChunks: the text is encoded, cut into windows of chunkSize tokens, *)
(* and each window is decoded and padded with bleed characters of the text *)
(* on both sides.                                                          *)
(***************************************************************************)
MaxChunkSize == 2    \* largest chunkSize
MaxBleed == 2        \* largest bleed

\* faulty variant: the window misses its last token
ChunkTokensShort(tokens, i, chunkSize) == slice(tokens, i, i + chunkSize - 1)

\* const chunk = tokens.slice(i, i + chunkSize)
ChunkTokens(tokens, i, chunkSize) == slice(tokens, i, i + chunkSize)

\* const startBleed = i > 0 ? content.slice(i - bleed, i) : ""
StartBleed(content, i, bleed) ==
    IF i > 0 THEN slice(content, i - bleed, i) ELSE << >>

\* const endBleed = i + chunkSize < tokens.length
\*     ? content.slice(i + chunkSize, i + chunkSize + bleed) : ""
EndBleed(content, tokens, i, chunkSize, bleed) ==
    IF i + chunkSize < Len(tokens)
    THEN slice(content, i + chunkSize, i + chunkSize + bleed)
    ELSE << >>

\* one pushed chunk: the string is startBleed + decodedChunk + endBleed
Chunk(content, tokens, i, chunkSize, bleed) ==
    LET chunk == ChunkTokens(tokens, i, chunkSize)
    IN  [at |-> i,
         core |-> chunk,
         startBleed |-> StartBleed(content, i, bleed),
         decodedChunk |-> Decode(chunk),
         endBleed |-> EndBleed(content, tokens, i, chunkSize, bleed)]

ScIdle ==
    /\ scPc = "idle"
    /\ scContent = << >>
    /\ scChunkSize = 0
    /\ scBleed = 0
    /\ scI = 0
    /\ scChunks = << >>

\* for (let i = 0; i < tokens.length; i += chunkSize) { ... chunks.push(...) }
splitChunksLoop ==
    /\ scPc = "loop"
    /\ scI < Len(Encode(scContent))
    /\ scChunks' = Append(scChunks,
                          Chunk(scContent, Encode(scContent), scI, scChunkSize, scBleed))
    /\ scI' = scI + scChunkSize
    /\ UNCHANGED <<scPc, scContent, scChunkSize, scBleed>>
    /\ UNCHANGED scRest

\* return chunks
splitChunksReturn ==
    /\ scPc = "loop"
    /\ scI >= Len(Encode(scContent))
    /\ scPc' = "done"
    /\ UNCHANGED <<scContent, scChunkSize, scBleed, scI, scChunks>>
    /\ UNCHANGED scRest

(***************************************************************************)
(* getSetting: the character's secrets, then the character's settings,     *)
(* then the settings of the process environment.                           *)
(***************************************************************************)
SettingKeys == {"OPENAI_API_KEY", "TELEGRAM_BOT_TOKEN"}

Unset == "undefined"     \* the key is not in the object
Empty == ""              \* the key is there with an empty string
Null == "null"

\* the value a level holds for a key when it holds a text
ValueAt(level) ==
    CASE level = "secrets" -> "text in secrets"
      [] level = "settings" -> "text in settings"
      [] level = "environment" -> "text in environment"

LevelNames == {"secrets", "settings", "environment"}

\* what the levels may hold: per level and key nothing, "", or a text
LevelContents ==
    {[l \in LevelNames |->
         [k \in SettingKeys |-> IF c[l][k] = "text" THEN ValueAt(l) ELSE c[l][k]]] :
        c \in [LevelNames -> [SettingKeys -> {Unset, Empty, "text"}]]}

\* the order of the three if statements
Levels == <<"secrets", "settings", "environment">>

\* if (object[key]): undefined and "" do not pass
Truthy(v) == v # Unset /\ v # Empty

GsIdle ==
    /\ gsPc = "idle"
    /\ gsLevels = << >>
    /\ gsKey = "none"
    /\ gsLevel = 0
    /\ gsResult = "none"

\* if (level[key]) return level[key]
getSettingFound ==
    /\ gsPc = "lookup"
    /\ gsLevel <= Len(Levels)
    /\ Truthy(gsLevels[Levels[gsLevel]][gsKey])
    /\ gsResult' = gsLevels[Levels[gsLevel]][gsKey]
    /\ gsPc' = "done"
    /\ UNCHANGED <<gsLevels, gsKey, gsLevel>>
    /\ UNCHANGED gsRest

\* the if statement of a level does not pass: on to the next one
getSettingNext ==
    /\ gsPc = "lookup"
    /\ gsLevel <= Len(Levels)
    /\ ~Truthy(gsLevels[Levels[gsLevel]][gsKey])
    /\ gsLevel' = gsLevel + 1
    /\ UNCHANGED <<gsPc, gsLevels, gsKey, gsResult>>
    /\ UNCHANGED gsRest

\* return null
getSettingNull ==
    /\ gsPc = "lookup"
    /\ gsLevel > Len(Levels)
    /\ gsResult' = Null
    /\ gsPc' = "done"
    /\ UNCHANGED <<gsLevels, gsKey, gsLevel>>
    /\ UNCHANGED gsRest

(***************************************************************************)
(* startAgents: the characters are started one after the other; each gets  *)
(* its wallet, its runtime, its connectors and its direct registration.    *)
(***************************************************************************)
MaxAgents == 2       \* most characters loaded

\* a character: whether it lists clients, which ones, and whether a
\* Telegram bot token is found for it
Characters ==
    {[hasClients |-> h, clients |-> c, botToken |-> t] :
        h \in BOOLEAN, c \in SUBSET {"telegram", "twitter"}, t \in BOOLEAN}

StIdle ==
    /\ stPc = "idle"
    /\ stCharacters = << >>
    /\ stCoinbase = FALSE
    /\ stAgent = 0
    /\ stStarted = {}

\* for (const character of characters) await startAgent(character)
startAgentsLoop ==
    /\ stPc = "loop"
    /\ IF stAgent < Len(stCharacters)
       THEN stAgent' = stAgent + 1 /\ stPc' = "wallet"
       ELSE stPc' = "done" /\ UNCHANGED stAgent
    /\ UNCHANGED <<stCharacters, stCoinbase, stStarted>>
    /\ UNCHANGED stRest

\* const wallet = await setupWallet(): throws when a Coinbase variable is
\* missing; nothing catches it, in startAgent or in startAgents
startSetupWallet ==
    /\ stPc = "wallet"
    /\ IF stCoinbase
       THEN /\ stStarted' = stStarted \cup {<<stAgent, "wallet">>}
            /\ stPc' = "clients"
       ELSE /\ stPc' = "rejected"
            /\ UNCHANGED stStarted
    /\ UNCHANGED <<stCharacters, stCoinbase, stAgent>>
    /\ UNCHANGED stRest

\* if (!character.clients) return console.error(...)
startCheckClients ==
    /\ stPc = "clients"
    /\ stPc' = IF stCharacters[stAgent].hasClients THEN "telegram" ELSE "loop"
    /\ UNCHANGED <<stCharacters, stCoinbase, stAgent, stStarted>>
    /\ UNCHANGED stRest

\* the Telegram client, in its try/catch: a missing bot token is logged
startTelegram ==
    /\ stPc = "telegram"
    /\ stStarted' =
          IF "telegram" \in stCharacters[stAgent].clients /\ stCharacters[stAgent].botToken
          THEN stStarted \cup {<<stAgent, "telegram">>}
          ELSE stStarted
    /\ stPc' = "twitter"
    /\ UNCHANGED <<stCharacters, stCoinbase, stAgent>>
    /\ UNCHANGED stRest

\* the Twitter clients
startTwitter ==
    /\ stPc = "twitter"
    /\ stStarted' =
          IF "twitter" \in stCharacters[stAgent].clients
          THEN stStarted \cup {<<stAgent, "twitter">>}
          ELSE stStarted
    /\ stPc' = "direct"
    /\ UNCHANGED <<stCharacters, stCoinbase, stAgent>>
    /\ UNCHANGED stRest

\* directClient.registerAgent(directRuntime); return clients
startDirect ==
    /\ stPc = "direct"
    /\ stStarted' = stStarted \cup {<<stAgent, "direct">>}
    /\ stPc' = "loop"
    /\ UNCHANGED <<stCharacters, stCoinbase, stAgent>>
    /\ UNCHANGED stRest

(***************************************************************************)
(* updateRecentMessageState: the recent messages are read again and a new  *)
(* state is returned with the three fields about them replaced.            *)
(***************************************************************************)
\* the keys updateRecentMessageState writes
RecentMessageKeys == {"recentMessages", "recentMessagesData", "attachments"}

\* the attachments of the messages not older than one hour before the newest
\* message with attachments: filter(...).flatMap(msg => attachments)
RecentAttachments(msgs) ==
    LET last == LastMessageWithAttachment(msgs)
    IN  IF last = 0 THEN << >>
        ELSE LET oneHourBeforeLastMessage == msgs[last].createdAt - OneHour
                 kept == SelectSeq(msgs,
                             LAMBDA m : m.createdAt >= oneHourBeforeLastMessage)
             IN  Flat([k \in DOMAIN kept |-> kept[k].attachments])

\* recentMessages, recentMessagesData, attachments
RecentMessageFields(msgs) ==
    [k \in RecentMessageKeys |->
        IF k = "attachments" THEN ItemsValue("updated", RecentAttachments(msgs))
        ELSE ItemsValue("updated", msgs)]

\* a state composed earlier, when the room held the given messages
ComposedEarlier(msgs) ==
    ReturnedState(InitialFields(<< >>, << >>, AttachmentPass(msgs, << >>).messages,
                                AttachmentPass(msgs, << >>).attachments),
                  ActionState({"FOLLOW_ROOM"}, RegistrationOrder.validates))

\* faulty variant: the fields are assigned to the state object handed in
StateObjectAssigned(stateIn, fields) == Spread(stateIn, fields)

\* { ...state, ... } builds a new object: the one handed in is left as it was
StateObjectAfter(stateIn, fields) == stateIn

UrIdle ==
    /\ urPc = "idle"
    /\ urStore = << >>
    /\ urConversationLength = 0
    /\ urState = << >>
    /\ urStateAtCall = << >>
    /\ urReturned = << >>

\* the whole of updateRecentMessageState
updateRecentMessageState ==
    /\ urPc = "start"
    /\ LET messagesRead == getMemories(urStore, urConversationLength)
           fields == RecentMessageFields(messagesRead)
       IN  /\ urReturned' = Spread(urState, fields)
           /\ urState' = StateObjectAfter(urState, fields)
    /\ urPc' = "done"
    /\ UNCHANGED <<urStore, urConversationLength, urStateAtCall>>
    /\ UNCHANGED urRest

(***************************************************************************)
(* ensureParticipantExists: the rooms of the user are read, and the user   *)
(* is added to the room when the answer is empty.                          *)
(***************************************************************************)
MaxParticipantCalls == 2   \* calls of ensureParticipantExists in a run

\* databaseAdapter.getParticipantsForAccount(userId): the participant records
\* of the user, one per room the user is in
getParticipantsForAccount(store, userId) == {p \in store : p[1] = userId}

\* if (participants?.length === 0)
AddsParticipant(found, roomId) == Cardinality(found) = 0

EpIdle ==
    /\ epPc = "idle"
    /\ epUserId = "none"
    /\ epRoomId = "none"
    /\ epParticipants = {}
    /\ epCalls = 0

\* a caller calls ensureParticipantExists(userId, roomId)
ensureParticipantExistsCall ==
    /\ epPc \in {"ready", "done"}
    /\ epCalls < MaxParticipantCalls
    /\ \E userId \in UserIds : epUserId' = userId
    /\ \E roomId \in RoomIds : epRoomId' = roomId
    /\ epCalls' = epCalls + 1
    /\ epPc' = "read"
    /\ UNCHANGED epParticipants
    /\ UNCHANGED enVars
    /\ UNCHANGED epRest

\* const participants = await getParticipantsForAccount(userId)
ensureParticipantExistsRead ==
    /\ epPc = "read"
    /\ epParticipants' = getParticipantsForAccount(participants, epUserId)
    /\ epPc' = "check"
    /\ UNCHANGED <<epUserId, epRoomId, epCalls>>
    /\ UNCHANGED enVars
    /\ UNCHANGED epRest

\* if (participants?.length === 0) await addParticipant(userId, roomId)
ensureParticipantExistsAdd ==
    /\ epPc = "check"
    /\ participants' = IF AddsParticipant(epParticipants, epRoomId)
                       THEN participants \cup {<<epUserId, epRoomId>>}
                       ELSE participants
    /\ epPc' = "done"
    /\ UNCHANGED <<epUserId, epRoomId, epParticipants, epCalls>>
    /\ UNCHANGED <<enUser, enRoom, enPc, accounts, rooms, createCalls>>
    /\ UNCHANGED epRest

(***************************************************************************)
(* The Twitter generation client: onReady starts a round and sets a timer  *)
(* that starts the next one; a round generates a text, posts it and        *)
(* stores it as a memory.                                                  *)
(***************************************************************************)
MaxRunning == 2      \* most rounds running at the same time

\* setTimeout(generateNewTweetLoop, 20 * 60 * 1000)
TweetInterval == 20 * 60 * 1000

\* the step by which time advances
TickLength == TweetInterval \div 2

Slots == 1..MaxRunning

\* faulty variant: the memory is created before the room is ensured
TweetStepsMemoryFirst ==
    <<"ensureUserExists", "generate", "sendTweet", "createMemory",
      "ensureRoomExists", "ensureParticipantInRoom", "cacheTweet">>

\* the awaited calls of a round, in the order of the code; "generate" is
\* the timeline, composeState and completion
TweetSteps ==
    <<"ensureUserExists", "generate", "sendTweet", "ensureRoomExists",
      "ensureParticipantInRoom", "cacheTweet", "createMemory">>

\* faulty variant: the tweet is sent whatever dryRun says
SendsTweetAlways(dryRun) == TRUE

\* if (!this.dryRun)
SendsTweet(dryRun) == ~dryRun

\* faulty variant: the timer is set by onReady only
TimerAfterLoopOnce(timer) == "unset"

\* generateNewTweetLoop: setTimeout(generateNewTweetLoop, ...), whatever the
\* round does
TimerAfterLoop(timer) == "armed"

FreeSlot == [at |-> 0, calls |-> << >>, failed |-> "none"]

\* generateNewTweet has been called: nothing awaited yet
NewRound == [at |-> 1, calls |-> << >>, failed |-> "none"]

Running(round) == round.at \in DOMAIN TweetSteps

\* the round has returned: every step done, the dry-run branch, or a catch
HasReturned(round) == round.at > Len(TweetSteps)

TwIdle ==
    /\ twPc = "idle"
    /\ twDryRun = FALSE
    /\ twTimer = "unset"
    /\ twElapsed = 0
    /\ twRounds = << >>
    /\ twStarts = 0

\* onReady: generateNewTweetLoop() is called at once
twOnReady ==
    /\ twPc = "created"
    /\ twRounds' = [twRounds EXCEPT ![1] = NewRound]
    /\ twStarts' = (twStarts + 1) % 2
    /\ twTimer' = TimerAfterLoop(twTimer)
    /\ twElapsed' = 0
    /\ twPc' = "looping"
    /\ UNCHANGED twDryRun
    /\ UNCHANGED twRest

\* time passes
twTick ==
    /\ twPc = "looping"
    /\ twTimer = "armed"
    /\ twElapsed < TweetInterval
    /\ twElapsed' = Min(twElapsed + TickLength, TweetInterval)
    /\ UNCHANGED <<twPc, twDryRun, twTimer, twRounds, twStarts>>
    /\ UNCHANGED twRest

\* the timer fires: generateNewTweetLoop calls generateNewTweet and sets the
\* timer again; the round takes a slot no running round holds
twTimerFires ==
    /\ twPc = "looping"
    /\ twTimer = "armed"
    /\ twElapsed = TweetInterval
    /\ \E slot \in Slots :
          /\ ~Running(twRounds[slot])
          /\ \A other \in Slots : other < slot => Running(twRounds[other])
          /\ twRounds' = [twRounds EXCEPT ![slot] = NewRound]
    /\ twStarts' = (twStarts + 1) % 2
    /\ twTimer' = TimerAfterLoop(twTimer)
    /\ twElapsed' = 0
    /\ UNCHANGED <<twPc, twDryRun>>
    /\ UNCHANGED twRest

\* an awaited call of a round returns
twStepReturns ==
    /\ \E slot \in DOMAIN twRounds :
          LET round == twRounds[slot]
          IN  /\ Running(round)
              /\ TweetSteps[round.at] = "sendTweet" => SendsTweet(twDryRun)
              /\ twRounds' = [twRounds EXCEPT ![slot] =
                                 [round EXCEPT !.at = @ + 1,
                                               !.calls = Append(@, TweetSteps[round.at])]]
    /\ UNCHANGED <<twPc, twDryRun, twTimer, twElapsed, twStarts>>
    /\ UNCHANGED twRest

\* an awaited call of a round throws: the catch logs and the round returns
twStepThrows ==
    /\ \E slot \in DOMAIN twRounds :
          LET round == twRounds[slot]
          IN  /\ Running(round)
              /\ TweetSteps[round.at] = "sendTweet" => SendsTweet(twDryRun)
              /\ twRounds' = [twRounds EXCEPT ![slot] =
                                 [round EXCEPT !.at = Len(TweetSteps) + 1,
                                               !.failed = TweetSteps[round.at]]]
    /\ UNCHANGED <<twPc, twDryRun, twTimer, twElapsed, twStarts>>
    /\ UNCHANGED twRest

\* else console.log("Dry run, not sending tweet:", ...): the round returns
twDryRunLogs ==
    /\ \E slot \in DOMAIN twRounds :
          LET round == twRounds[slot]
          IN  /\ Running(round)
              /\ TweetSteps[round.at] = "sendTweet"
              /\ ~SendsTweet(twDryRun)
              /\ twRounds' = [twRounds EXCEPT ![slot] =
                                 [round EXCEPT !.at = Len(TweetSteps) + 1]]
    /\ UNCHANGED <<twPc, twDryRun, twTimer, twElapsed, twStarts>>
    /\ UNCHANGED twRest

(***************************************************************************)
(* The Discord client: a handler call per reaction added or removed.  It   *)
(* ensures the accounts, the room and the participants, and stores the     *)
(* reaction as a memory.                                                   *)
(***************************************************************************)
MaxReactionEvents == 3   \* reaction events in a run

Emojis == {"thumbsup", "heart"}
MessageId == "message1"

\* stringToUuid: equal strings give equal ids, different strings different ids
stringToUuid(str) == <<"uuid">> \o str

\* `${reaction.message.id}-${user.id}-${emoji}`, with "-removed" appended by
\* handleReactionRemove
reactionUUID(kind, user, emoji) ==
    stringToUuid(<<MessageId, user, emoji>>
                 \o IF kind = "remove" THEN <<"removed">> ELSE << >>)

\* the positions of a handler call, in the order of the code
ReactionSteps == <<"fetch", "firstJoin", "secondJoin", "createMemory">>

NewHandler(kind, user, emoji) ==
    [kind |-> kind, user |-> user, emoji |-> emoji, at |-> 1,
     completed |-> {}, before |-> {}, ended |-> "running"]

\* the calls of the join the handler awaits at this position
JoinCalls(at) ==
    CASE ReactionSteps[at] = "firstJoin" -> FirstJoin
      [] ReactionSteps[at] = "secondJoin" -> SecondJoin
      [] OTHER -> {}

Awaiting(handler, step) ==
    handler.ended = "running" /\ ReactionSteps[handler.at] = step

RxIdle ==
    /\ rxPc = "idle"
    /\ rxReacted = {}
    /\ rxHandlers = << >>
    /\ rxCreated = << >>

\* Events.MessageReactionAdd: a user puts an emoji that is not yet theirs on
\* the message, and handleReactionAdd is called
rxReactionAdd ==
    /\ rxPc = "listening"
    /\ Len(rxHandlers) < MaxReactionEvents
    /\ \E user \in UserIds : \E emoji \in Emojis :
          /\ <<user, emoji>> \notin rxReacted
          /\ rxReacted' = rxReacted \cup {<<user, emoji>>}
          /\ rxHandlers' = Append(rxHandlers, NewHandler("add", user, emoji))
    /\ UNCHANGED <<rxPc, rxCreated>>
    /\ UNCHANGED rxRest

\* Events.MessageReactionRemove: a user takes their emoji off the message,
\* and handleReactionRemove is called
rxReactionRemove ==
    /\ rxPc = "listening"
    /\ Len(rxHandlers) < MaxReactionEvents
    /\ \E user \in UserIds : \E emoji \in Emojis :
          /\ <<user, emoji>> \in rxReacted
          /\ rxReacted' = rxReacted \ {<<user, emoji>>}
          /\ rxHandlers' = Append(rxHandlers, NewHandler("remove", user, emoji))
    /\ UNCHANGED <<rxPc, rxCreated>>
    /\ UNCHANGED rxRest

\* if (reaction.partial) await reaction.fetch(); on an error the handler
\* logs and returns
rxFetch ==
    /\ \E h \in DOMAIN rxHandlers : \E ok \in BOOLEAN :
          /\ Awaiting(rxHandlers[h], "fetch")
          /\ rxHandlers' = [rxHandlers EXCEPT ![h] =
                  IF ok THEN [@ EXCEPT !.at = @ + 1]
                  ELSE [@ EXCEPT !.ended = "returned"]]
    /\ UNCHANGED <<rxPc, rxReacted, rxCreated>>
    /\ UNCHANGED rxRest

\* await Promise.all([...]) of the ensure calls: every call has completed
rxJoinResolves ==
    /\ \E h \in DOMAIN rxHandlers :
          /\ \/ Awaiting(rxHandlers[h], "firstJoin")
             \/ Awaiting(rxHandlers[h], "secondJoin")
          /\ rxHandlers' = [rxHandlers EXCEPT ![h] =
                  [@ EXCEPT !.completed = @ \cup JoinCalls(rxHandlers[h].at),
                            !.at = @ + 1]]
    /\ UNCHANGED <<rxPc, rxReacted, rxCreated>>
    /\ UNCHANGED rxRest

\* a call of the join rejects: the handler's promise rejects; which of the
\* other calls of the join completed is not recorded
rxJoinRejects ==
    /\ \E h \in DOMAIN rxHandlers :
          /\ \/ Awaiting(rxHandlers[h], "firstJoin")
             \/ Awaiting(rxHandlers[h], "secondJoin")
          /\ rxHandlers' = [rxHandlers EXCEPT ![h] = [@ EXCEPT !.ended = "rejected"]]
    /\ UNCHANGED <<rxPc, rxReacted, rxCreated>>
    /\ UNCHANGED rxRest

\* await this.runtime.messageManager.createMemory({ id: reactionUUID, ... })
rxCreateMemory ==
    /\ \E h \in DOMAIN rxHandlers :
          LET handler == rxHandlers[h]
          IN  /\ Awaiting(handler, "createMemory")
              /\ rxCreated' = Append(rxCreated,
                                     reactionUUID(handler.kind, handler.user,
                                                  handler.emoji))
              /\ rxHandlers' = [rxHandlers EXCEPT ![h] =
                      [@ EXCEPT !.before = handler.completed,
                                !.ended = "returned"]]
    /\ UNCHANGED <<rxPc, rxReacted>>
    /\ UNCHANGED rxRest

(***************************************************************************)
(* The auxiliary memory store served over HTTP: an array of records,       *)
(* created by POST, changed by PUT and removed by DELETE, by id.           *)
(***************************************************************************)
MaxRequests == 3     \* requests served in a run

MemoryContents == {"content1", "content2"}

\* the ids a request may name: those given out and one never given out
RequestIds == 1..(MaxRequests + 1)

NoRequest == [method |-> "none", id |-> 0, status |-> 0, before |-> << >>]

\* memories.findIndex(memory => memory.id === id); 0 stands for -1
findIndex(list, id) ==
    IF \E i \in DOMAIN list : list[i].id = id
    THEN CHOOSE i \in DOMAIN list :
             list[i].id = id /\ \A j \in DOMAIN list : list[j].id = id => i <= j
    ELSE 0

\* faulty variant: splice(memoryIndex) removes the rest of the array
splicedToEnd(list, memoryIndex) == SubSeq(list, 1, memoryIndex - 1)

\* memories.splice(memoryIndex, 1)
spliced(list, memoryIndex) ==
    SubSeq(list, 1, memoryIndex - 1) \o SubSeq(list, memoryIndex + 1, Len(list))

MsIdle ==
    /\ msPc = "idle"
    /\ memories = << >>
    /\ msIssued = 0
    /\ msNow = 0
    /\ msLast = << >>

\* app.post('/memories'): a record with a new id is appended
postMemory ==
    /\ msPc = "serving"
    /\ msNow < MaxRequests
    /\ \E content \in MemoryContents :
          LET newMemory == [id |-> msIssued + 1, userId |-> "user1",
                            agentId |-> AgentId, content |-> content,
                            createdAt |-> msNow, updatedAt |-> -1]
          IN  memories' = Append(memories, newMemory)
    /\ msIssued' = msIssued + 1
    /\ msNow' = msNow + 1
    /\ msLast' = [method |-> "POST", id |-> msIssued + 1, status |-> 201,
                  before |-> memories]
    /\ UNCHANGED msPc
    /\ UNCHANGED msRest

\* app.put('/memories/:id'): 404, or content and updatedAt of the record
putMemory ==
    /\ msPc = "serving"
    /\ msNow < MaxRequests
    /\ \E id \in RequestIds : \E content \in MemoryContents :
          LET memoryIndex == findIndex(memories, id)
          IN  IF memoryIndex = 0
              THEN /\ msLast' = [method |-> "PUT", id |-> id, status |-> 404,
                                 before |-> memories]
                   /\ UNCHANGED memories
              ELSE /\ memories' = [memories EXCEPT ![memoryIndex].content = content,
                                                   ![memoryIndex].updatedAt = msNow]
                   /\ msLast' = [method |-> "PUT", id |-> id, status |-> 200,
                                 before |-> memories]
    /\ msNow' = msNow + 1
    /\ UNCHANGED <<msPc, msIssued>>
    /\ UNCHANGED msRest

\* app.delete('/memories/:id'): 404, or the record is spliced out
deleteMemory ==
    /\ msPc = "serving"
    /\ msNow < MaxRequests
    /\ \E id \in RequestIds :
          LET memoryIndex == findIndex(memories, id)
          IN  IF memoryIndex = 0
              THEN /\ msLast' = [method |-> "DELETE", id |-> id, status |-> 404,
                                 before |-> memories]
                   /\ UNCHANGED memories
              ELSE /\ memories' = spliced(memories, memoryIndex)
                   /\ msLast' = [method |-> "DELETE", id |-> id, status |-> 200,
                                 before |-> memories]
    /\ msNow' = msNow + 1
    /\ UNCHANGED <<msPc, msIssued>>
    /\ UNCHANGED msRest

MiscIdle == ScIdle /\ GsIdle /\ StIdle /\ UrIdle /\ EpIdle /\ TwIdle /\ RxIdle /\ MsIdle

(***************************************************************************)
(* Specifications.                                                         *)
(***************************************************************************)
\* trimTokens on every text and budget
InitTrim ==
    /\ context \in Texts
    /\ maxTokens \in 1..MaxBudget
    /\ trimmed = << >>
    /\ trimPc = "start"
    /\ CompIdle
    /\ CsIdle
    /\ DispIdle
    /\ StoreIdle
    /\ MiscIdle

NextTrim == trimTokens

SpecTrim == InitTrim /\ [][NextTrim]_vars

\* one call of a completion entry point
CompletionContexts == SeqsUpTo({"a"}, MaxLen)

InitCompletion ==
    /\ entry \in Entries
    /\ context \in CompletionContexts
    /\ maxTokens \in 1..MaxCtxBudget
    /\ trimmed = << >>
    /\ trimPc = "idle"
    /\ wpc = "begin"
    /\ cpc = "idle"
    /\ triesLeft = 0
    /\ retryLength = 0
    /\ retryDelay = 0
    /\ wRetryLength = 0
    /\ requests = 0
    /\ failures = 0
    /\ sentContext = NoContext
    /\ lastResponse = "none"
    /\ cResult = "none"
    /\ result = "none"
    /\ cWaits = << >>
    /\ wWaits = << >>
    /\ waitedSince = FALSE
    /\ gapless = FALSE
    /\ exhaustions = 0
    /\ rejected = 0
    /\ badLeft = MaxBad
    /\ logged = NothingLogged
    /\ CsIdle
    /\ DispIdle
    /\ StoreIdle
    /\ MiscIdle

NextCompletion ==
    \/ completionStart
    \/ completionFetch
    \/ completionCatch
    \/ wrapperBegin
    \/ wrapperParse
    \/ wrapperCatch
    \/ wrapperWait
    \/ serviceRecovers

\* one call of composeState
InitCompose ==
    /\ csPc = "start"
    /\ conversationLength \in 1..MaxConversationLength
    /\ factStore \in {FactsOf(e) : e \in FactStores}
    /\ additionalKeys \in AdditionalKeySets
    /\ validated = {}
    /\ recentFactsData = << >>
    /\ relevantFactsData = << >>
    /\ searchIssued = FALSE
    /\ searchQuery = 0
    /\ initialState = << >>
    /\ state = NoState
    /\ messageStore = << >>
    /\ message = << >>
    /\ recentMessagesData = << >>
    /\ allAttachments = << >>
    /\ csFailed = {}
    /\ character = CharacterWith(1)
    /\ csOrder = RegistrationOrder
    /\ sampled = << >>
    /\ TrimIdle
    /\ CompIdle
    /\ DispIdle
    /\ StoreIdle
    /\ MiscIdle

NextCompose ==
    \/ composeReads
    \/ composeRelevantFacts
    \/ composeInitialState
    \/ composeValidate

SpecCompose == InitCompose /\ [][NextCompose]_vars

\* one call of composeState, over the stored messages and their attachments
InitComposeMessages ==
    /\ csPc = "start"
    /\ conversationLength \in 1..MaxConversationLength
    /\ factStore = << >>
    /\ additionalKeys = << >>
    /\ validated = {}
    /\ recentFactsData = << >>
    /\ relevantFactsData = << >>
    /\ searchIssued = FALSE
    /\ searchQuery = 0
    /\ initialState = << >>
    /\ state = NoState
    /\ messageStore \in MessageStores
    /\ message \in {<< >>, <<Attachment(0)>>}
    /\ recentMessagesData = << >>
    /\ allAttachments = << >>
    /\ csFailed = {}
    /\ character = CharacterWith(1)
    /\ csOrder = RegistrationOrder
    /\ sampled = << >>
    /\ TrimIdle
    /\ CompIdle
    /\ DispIdle
    /\ StoreIdle
    /\ MiscIdle

SpecComposeMessages == InitComposeMessages /\ [][NextCompose]_vars

SpecCompletion == InitCompletion /\ [][NextCompletion]_vars

\* the event loop runs every continuation and timer that is ready
FairSpecCompletion ==
    /\ SpecCompletion
    /\ WF_vars(completionStart)
    /\ WF_vars(completionFetch)
    /\ WF_vars(completionCatch)
    /\ WF_vars(wrapperBegin)
    /\ WF_vars(wrapperParse)
    /\ WF_vars(wrapperCatch)
    /\ WF_vars(wrapperWait)

\* one call of processActions, over the registries, the lists of responses
\* and the validate results of the registered actions
InitProcessActions ==
    /\ paPc = "start"
    /\ actions \in Registries
    /\ responses \in ResponseLists
    /\ applicable \in SUBSET {actions[i].name : i \in DOMAIN actions}
    /\ normalizedAction = << >>
    /\ selected = 0
    /\ handlerCalls = << >>
    /\ paOutcome = "none"
    /\ TrimIdle
    /\ CompIdle
    /\ CsIdle
    /\ EvIdle
    /\ StoreIdle
    /\ MiscIdle

NextProcessActions ==
    \/ paNoResponse
    \/ paNoAction
    \/ paFind
    \/ paNotFound
    \/ paNoHandler
    \/ paHandler

SpecProcessActions == InitProcessActions /\ [][NextProcessActions]_vars

\* one call of evaluate, over the registries and the validate results
InitEvaluate ==
    /\ evPc = "start"
    /\ evaluators \in EvaluatorRegistries
    /\ evValid \in SUBSET {evaluators[i].name : i \in DOMAIN evaluators}
    /\ evaluatorsData = << >>
    /\ parsedResult = {}
    /\ evHandlerCalls = << >>
    /\ evOutcome = "none"
    /\ TrimIdle
    /\ CompIdle
    /\ CsIdle
    /\ PaIdle
    /\ StoreIdle
    /\ MiscIdle

NextEvaluate ==
    \/ evValidate
    \/ evComplete
    \/ evRun

SpecEvaluate == InitEvaluate /\ [][NextEvaluate]_vars

\* two reaction handlers running at the same time: the first for user1 in
\* room1, the other for any user in any room, over a store that holds the
\* agent's account or not
InitEnsure ==
    /\ enUser \in {u \in [Handlers -> UserIds] : u[1] = "user1"}
    /\ enRoom \in {r \in [Handlers -> RoomIds] : r[1] = "room1"}
    /\ enPc = [h \in Handlers |-> [call \in EnsureCalls |-> "todo"]]
    /\ accounts \in {{}, {AgentId}}
    /\ rooms = {}
    /\ participants = {}
    /\ createCalls = [key \in EnsureKeys |-> 0]
    /\ EmIdle
    /\ TrimIdle
    /\ CompIdle
    /\ CsIdle
    /\ DispIdle
    /\ MiscIdle

NextEnsure ==
    \/ ensureReads
    \/ ensureCreates
    \/ ensureFinds

SpecEnsure == InitEnsure /\ [][NextEnsure]_vars

\* calls of embed one after the other, with or without an API key, over the
\* embeddings stored with messages
InitEmbed ==
    /\ emPc = "ready"
    /\ hasKey \in BOOLEAN
    /\ cachedEmbeddings \in {f \in [EmbedInputs -> {NoVector, ServiceVector("x"),
                                                     ServiceVector("y"), ZeroVector}] :
                                \A i \in EmbedInputs : f[i] \in StoredVectors(i)}
    /\ emInput = "none"
    /\ emCalls = << >>
    /\ emRequests = [i \in EmbedInputs |-> 0]
    /\ EnIdle
    /\ TrimIdle
    /\ CompIdle
    /\ CsIdle
    /\ DispIdle
    /\ MiscIdle

NextEmbed ==
    \/ embedCall
    \/ embedLocal
    \/ embedCached
    \/ embedFetch

SpecEmbed == InitEmbed /\ [][NextEmbed]_vars

\* one call of splitChunks, over the texts, chunk sizes and bleeds
InitSplitChunks ==
    /\ scPc = "loop"
    /\ scContent \in Texts
    /\ scChunkSize \in 1..MaxChunkSize
    /\ scBleed \in 0..MaxBleed
    /\ scI = 0
    /\ scChunks = << >>
    /\ GsIdle
    /\ StIdle
    /\ UrIdle
    /\ EpIdle
    /\ TwIdle
    /\ RxIdle
    /\ MsIdle
    /\ TrimIdle
    /\ CompIdle
    /\ CsIdle
    /\ DispIdle
    /\ StoreIdle

NextSplitChunks ==
    \/ splitChunksLoop
    \/ splitChunksReturn

SpecSplitChunks == InitSplitChunks /\ [][NextSplitChunks]_vars

\* one call of getSetting, over what the three levels hold for each key:
\* nothing, an empty string, or a text
InitGetSetting ==
    /\ gsPc = "lookup"
    /\ gsLevels \in LevelContents
    /\ gsKey \in SettingKeys
    /\ gsLevel = 1
    /\ gsResult = "none"
    /\ ScIdle
    /\ StIdle
    /\ UrIdle
    /\ EpIdle
    /\ TwIdle
    /\ RxIdle
    /\ MsIdle
    /\ TrimIdle
    /\ CompIdle
    /\ CsIdle
    /\ DispIdle
    /\ StoreIdle

NextGetSetting ==
    \/ getSettingFound
    \/ getSettingNext
    \/ getSettingNull

SpecGetSetting == InitGetSetting /\ [][NextGetSetting]_vars

\* the start of the process, over the characters loaded and the credentials
\* present
InitStart ==
    /\ stPc = "loop"
    /\ stCharacters \in {c \in SeqsUpTo(Characters, MaxAgents) : Len(c) >= 1}
    /\ stCoinbase \in BOOLEAN
    /\ stAgent = 0
    /\ stStarted = {}
    /\ ScIdle
    /\ GsIdle
    /\ UrIdle
    /\ EpIdle
    /\ TwIdle
    /\ RxIdle
    /\ MsIdle
    /\ TrimIdle
    /\ CompIdle
    /\ CsIdle
    /\ DispIdle
    /\ StoreIdle

NextStart ==
    \/ startAgentsLoop
    \/ startSetupWallet
    \/ startCheckClients
    \/ startTelegram
    \/ startTwitter
    \/ startDirect

SpecStart == InitStart /\ [][NextStart]_vars

\* one call of composeState, over the lengths of the character's lists
InitComposeCharacter ==
    /\ csPc = "start"
    /\ conversationLength = 1
    /\ factStore = << >>
    /\ additionalKeys = << >>
    /\ validated = {}
    /\ recentFactsData = << >>
    /\ relevantFactsData = << >>
    /\ searchIssued = FALSE
    /\ searchQuery = 0
    /\ initialState = << >>
    /\ state = NoState
    /\ messageStore = << >>
    /\ message = << >>
    /\ recentMessagesData = << >>
    /\ allAttachments = << >>
    /\ csFailed = {}
    /\ \E n \in 0..MaxListLen : character = CharacterWith(n)
    /\ csOrder = RegistrationOrder
    /\ sampled = << >>
    /\ TrimIdle
    /\ CompIdle
    /\ DispIdle
    /\ StoreIdle
    /\ MiscIdle

SpecComposeCharacter == InitComposeCharacter /\ [][NextCompose]_vars

\* one call of composeState, over the orders in which the branches of its two
\* joins complete
InitComposeOrder ==
    /\ csPc = "start"
    /\ conversationLength = 2
    /\ factStore \in {FactsOf(e) : e \in {f \in FactStores : Len(f) = 1}}
    /\ additionalKeys = << >>
    /\ validated = {}
    /\ recentFactsData = << >>
    /\ relevantFactsData = << >>
    /\ searchIssued = FALSE
    /\ searchQuery = 0
    /\ initialState = << >>
    /\ state = NoState
    /\ messageStore \in {m \in MessageStores :
                            Len(m) = 1 /\ m[1].createdAt = 0 /\ m[1].attachments = << >>}
    /\ message = << >>
    /\ recentMessagesData = << >>
    /\ allAttachments = << >>
    /\ csFailed = {}
    /\ character = CharacterWith(1)
    /\ csOrder \in CompletionOrders
    /\ sampled = << >>
    /\ TrimIdle
    /\ CompIdle
    /\ DispIdle
    /\ StoreIdle
    /\ MiscIdle

SpecComposeOrder == InitComposeOrder /\ [][NextCompose]_vars

\* one call of composeState, over characters with and without style lists
\* and every conversation length
InitComposeSampled ==
    /\ csPc = "start"
    /\ conversationLength \in 1..MaxConversationLength
    /\ factStore = << >>
    /\ additionalKeys = << >>
    /\ validated = {}
    /\ recentFactsData = << >>
    /\ relevantFactsData = << >>
    /\ searchIssued = FALSE
    /\ searchQuery = 0
    /\ initialState = << >>
    /\ state = NoState
    /\ messageStore = << >>
    /\ message = << >>
    /\ recentMessagesData = << >>
    /\ allAttachments = << >>
    /\ csFailed = {}
    /\ \E n \in 0..MaxListLen :
          \/ character = CharacterWith(n)
          \/ \E m \in 0..MaxListLen : character = CharacterStyled(n, m)
    /\ csOrder = RegistrationOrder
    /\ sampled = << >>
    /\ TrimIdle
    /\ CompIdle
    /\ DispIdle
    /\ StoreIdle
    /\ MiscIdle

SpecComposeSampled == InitComposeSampled /\ [][NextCompose]_vars

\* one call of updateRecentMessageState with a state composed when the room
\* held all its messages but the newest, or all of them
InitUpdateRecent ==
    /\ urPc = "start"
    /\ urStore \in MessageStores
    /\ urConversationLength \in 1..MaxConversationLength
    /\ \E new \in 0..1 :
          urState = ComposedEarlier(
                        getMemories(SubSeq(urStore, Min(new, Len(urStore)) + 1,
                                           Len(urStore)),
                                    urConversationLength))
    /\ urStateAtCall = urState
    /\ urReturned = << >>
    /\ ScIdle
    /\ GsIdle
    /\ StIdle
    /\ EpIdle
    /\ TwIdle
    /\ RxIdle
    /\ MsIdle
    /\ TrimIdle
    /\ CompIdle
    /\ CsIdle
    /\ DispIdle
    /\ StoreIdle

NextUpdateRecent == updateRecentMessageState

SpecUpdateRecent == InitUpdateRecent /\ [][NextUpdateRecent]_vars

\* calls of ensureParticipantExists one after the other, over every set of
\* participants the store can hold
InitEnsureParticipant ==
    /\ epPc = "ready"
    /\ epUserId = "none"
    /\ epRoomId = "none"
    /\ epParticipants = {}
    /\ epCalls = 0
    /\ participants \in SUBSET (UserIds \X RoomIds)
    /\ enUser = << >>
    /\ enRoom = << >>
    /\ enPc = << >>
    /\ accounts = {}
    /\ rooms = {}
    /\ createCalls = << >>
    /\ EmIdle
    /\ ScIdle
    /\ GsIdle
    /\ StIdle
    /\ UrIdle
    /\ TwIdle
    /\ RxIdle
    /\ MsIdle
    /\ TrimIdle
    /\ CompIdle
    /\ CsIdle
    /\ DispIdle

NextEnsureParticipant ==
    \/ ensureParticipantExistsCall
    \/ ensureParticipantExistsRead
    \/ ensureParticipantExistsAdd

SpecEnsureParticipant == InitEnsureParticipant /\ [][NextEnsureParticipant]_vars

\* the generation client from its construction on, with and without dryRun
InitTweet ==
    /\ twPc = "created"
    /\ twDryRun \in BOOLEAN
    /\ twTimer = "unset"
    /\ twElapsed = 0
    /\ twRounds = [slot \in Slots |-> FreeSlot]
    /\ twStarts = 0
    /\ ScIdle
    /\ GsIdle
    /\ StIdle
    /\ UrIdle
    /\ EpIdle
    /\ RxIdle
    /\ MsIdle
    /\ TrimIdle
    /\ CompIdle
    /\ CsIdle
    /\ DispIdle
    /\ StoreIdle

NextTweet ==
    \/ twOnReady
    \/ twTick
    \/ twTimerFires
    \/ twStepReturns
    \/ twStepThrows
    \/ twDryRunLogs

SpecTweet == InitTweet /\ [][NextTweet]_vars

\* the client becomes ready, time passes, timers fire and awaited calls settle
FairSpecTweet ==
    /\ SpecTweet
    /\ WF_vars(twOnReady)
    /\ WF_vars(twTick)
    /\ WF_vars(twTimerFires)
    /\ WF_vars(twStepReturns \/ twStepThrows \/ twDryRunLogs)

\* reactions added and removed on one message, and their handler calls
InitReactions ==
    /\ rxPc = "listening"
    /\ rxReacted = {}
    /\ rxHandlers = << >>
    /\ rxCreated = << >>
    /\ ScIdle
    /\ GsIdle
    /\ StIdle
    /\ UrIdle
    /\ EpIdle
    /\ TwIdle
    /\ MsIdle
    /\ TrimIdle
    /\ CompIdle
    /\ CsIdle
    /\ DispIdle
    /\ StoreIdle

NextReactions ==
    \/ rxReactionAdd
    \/ rxReactionRemove
    \/ rxFetch
    \/ rxJoinResolves
    \/ rxJoinRejects
    \/ rxCreateMemory

SpecReactions == InitReactions /\ [][NextReactions]_vars

\* the connectors that store messages: the generation client or the
\* Discord client at work
InitConnectors == InitTweet \/ InitReactions

NextConnectors ==
    \/ twOnReady
    \/ twTick
    \/ twTimerFires
    \/ twStepReturns
    \/ twStepThrows
    \/ twDryRunLogs
    \/ rxReactionAdd
    \/ rxReactionRemove
    \/ rxFetch
    \/ rxJoinResolves
    \/ rxJoinRejects
    \/ rxCreateMemory

SpecConnectors == InitConnectors /\ [][NextConnectors]_vars

\* requests to the memory store, from the empty store on
InitMemoryStore ==
    /\ msPc = "serving"
    /\ memories = << >>
    /\ msIssued = 0
    /\ msNow = 0
    /\ msLast = NoRequest
    /\ ScIdle
    /\ GsIdle
    /\ StIdle
    /\ UrIdle
    /\ EpIdle
    /\ TwIdle
    /\ RxIdle
    /\ TrimIdle
    /\ CompIdle
    /\ CsIdle
    /\ DispIdle
    /\ StoreIdle

NextMemoryStore ==
    \/ postMemory
    \/ putMemory
    \/ deleteMemory

SpecMemoryStore == InitMemoryStore /\ [][NextMemoryStore]_vars

(***************************************************************************)
(* Properties.                                                             *)
(***************************************************************************)

\* C1: for every text t and budget b with more than b tokens, trimTokens
\* returns the text of exactly the last b tokens of t, and that text has at
\* most b tokens.
C1_TrimKeepsLastTokens ==
    (trimPc = "done" /\ Len(Encode(context)) > maxTokens)
        => /\ trimmed = Decode(LastN(Encode(context), maxTokens))
           /\ Len(Encode(trimmed)) <= maxTokens

\* C2: whatever the entry point, the context carried by a remote request has
\* at most max_context_length tokens.
C2_SentContextWithinBudget ==
    sentContext # NoContext => Len(Encode(sentContext)) <= maxTokens

\* C3: one call of completion issues at most 5 remote requests; it returns
\* the content of the first successful response, which is then its last
\* request, and it throws only after 5 failed attempts.
C3_AtMostFiveAttempts ==
    cpc # "idle" =>
        /\ requests <= 5
        /\ cpc \in {"fetch", "catch"} => requests = failures
        /\ cpc = "fetch" => failures < 5
        /\ cpc = "returned" =>
              /\ requests = failures + 1
              /\ cResult \in Contents
              /\ cResult = lastResponse
        /\ cpc = "thrown" =>
              /\ failures = 5
              /\ requests = 5
              /\ cResult = "error"

C3_Witness == entry = "completion" /\ cpc = "thrown" /\ result = "error"

\* C4: a typed wrapper returns only a value its parser accepted; a response
\* the parser rejects is neither returned nor raised, the wrapper goes round
\* its loop and a new remote request follows.
C4_WrapperReturnsOnlyAccepted ==
    /\ [](entry \in Wrappers =>
            /\ wpc # "thrown"
            /\ result # "error"
            /\ wpc = "returned" =>
                  /\ result # "null"
                  /\ result = ParserOf(entry, lastResponse))
    /\ [][rejected' > rejected => (wpc' \in {"call", "wait"} /\ result' = result)]_vars
    /\ (entry \in Wrappers /\ wpc \in {"call", "wait"}) ~> (wpc = "await" /\ requests > 0)

C4_Witness == entry \in Wrappers /\ wpc = "returned" /\ rejected > 1

C6_BackoffStartsAtBase ==
    /\ ~gapless
    /\ \A k \in DOMAIN cWaits : cWaits[k] = 1000 * 2^(k - 1)
    /\ \A k \in DOMAIN wWaits : wWaits[k] = 1000 * 2^(k - 1)

\* C7: once the service answers only what the parser accepts, every pending
\* call of a typed wrapper eventually returns a parsed value; until then the
\* wrapper never gives up.
C7_WrapperEventuallyReturns ==
    /\ (entry \in Wrappers /\ badLeft = 0) ~> (wpc = "returned")
    /\ [](entry \in Wrappers => wpc \in {"begin", "call", "await", "wait", "returned"})
    /\ []((entry \in Wrappers /\ wpc = "returned") => ParseAccepted(result))

C7_Witness ==
    entry \in Wrappers /\ wpc = "returned" /\ rejected > 0 /\ exhaustions > 0

\* C8: every key of additionalKeys is mapped by the returned state to the
\* caller's value, whichever computed field has the same name.
C8_AdditionalKeysWin ==
    csPc = "done" => \A k \in DOMAIN additionalKeys : state[k] = additionalKeys[k]

\* C9: the similarity search over facts is issued exactly when the recent
\* facts page is full, with the embedding of the most recent fact, and its
\* results less the recent facts are relevantFactsData; otherwise
\* relevantFactsData is empty.
C9_SearchOnFullPage ==
    csPc = "done" =>
        LET full == Len(recentFactsData) = RecentFactsCount(conversationLength)
        IN  /\ searchIssued <=> full
            /\ full => searchQuery = recentFactsData[1].embedding
            /\ ~full => relevantFactsData = << >>

ReadMessages == getMemories(messageStore, conversationLength)

\* the createdAt of the newest message with attachments among msgs
NewestAttachmentTime(msgs) ==
    CHOOSE t \in {msgs[i].createdAt : i \in {j \in DOMAIN msgs : HasAttachments(msgs[j])}} :
        \A i \in DOMAIN msgs : HasAttachments(msgs[i]) => msgs[i].createdAt <= t

\* the texts a message's attachments must show, T being the newest
\* attachment-bearing createdAt
TextsAsClaimed(msg, T) ==
    \A j \in DOMAIN msg.attachments :
        msg.attachments[j].text =
            IF msg.createdAt < T - OneHour THEN HiddenMarker ELSE "text"

\* C11: in a composed state, with T the createdAt of the newest recent
\* message that has attachments, the attachments of every recent message
\* older than T - 3600000 ms show the hidden marker and those of every other
\* recent message keep their text, both on the messages and in the list of
\* attachments of the state.
C11_StaleAttachmentsHidden ==
    (csPc = "done" /\ \E i \in DOMAIN ReadMessages : HasAttachments(ReadMessages[i])) =>
        LET T == NewestAttachmentTime(ReadMessages)
            composed == state["recentMessagesData"].items
            listed == state["attachments"].items
        IN  /\ {composed[i].id : i \in DOMAIN composed}
                  = {ReadMessages[i].id : i \in DOMAIN ReadMessages}
            /\ \A i \in DOMAIN composed : TextsAsClaimed(composed[i], T)
            /\ \A i \in DOMAIN ReadMessages :
                   \A j \in DOMAIN ReadMessages[i].attachments :
                       \E k \in DOMAIN listed :
                           /\ listed[k].id = ReadMessages[i].attachments[j].id
                           /\ listed[k].text =
                                 IF ReadMessages[i].createdAt < T - OneHour
                                 THEN HiddenMarker ELSE "text"

\* a composed state with one attachment hidden and one kept exactly one hour
\* before the newest
C11_Witness ==
    /\ csPc = "done"
    /\ \E i \in DOMAIN ReadMessages : HasAttachments(ReadMessages[i])
    /\ LET T == NewestAttachmentTime(ReadMessages)
           listed == state["attachments"].items
       IN  /\ \E i \in DOMAIN ReadMessages :
                 /\ HasAttachments(ReadMessages[i])
                 /\ ReadMessages[i].createdAt = T - OneHour
                 /\ \E k \in DOMAIN listed :
                       listed[k].id = ReadMessages[i].id /\ listed[k].text = "text"
           /\ \E k \in DOMAIN listed : listed[k].text = HiddenMarker

\* C12: the action and evaluator catalog of a composed state holds exactly
\* the registered actions and evaluators whose validate returned true in
\* this composition: none that failed validation, and all that passed.
C12_CatalogIsValidated ==
    csPc = "done" =>
        /\ \A k \in {"actions", "actionNames", "actionExamples"} :
               Names(state[k].names) = validated \cap Names(Actions)
        /\ \A k \in {"evaluatorsData", "evaluators", "evaluatorNames",
                     "evaluatorExamples"} :
               Names(state[k].names) = validated \cap Names(Evaluators)

\* a composed state where one action passed validation and another did not
C12_Witness ==
    /\ csPc = "done"
    /\ "FOLLOW_ROOM" \in validated
    /\ "MUTE_ROOM" \notin validated
    /\ "FOLLOW_ROOM" \in Names(state["actionNames"].names)
    /\ "FACT" \notin validated

\* C13: when a branch of one of the two joins of composeState fails,
\* composeState fails and returns no state.
C13_BranchFailureAborts ==
    /\ csFailed # {} => (csPc = "failed" /\ state = NoState)
    /\ csPc = "done" => csFailed = {}

\* a single failed validate aborts a composition whose reads all succeeded
C13_Witness ==
    /\ csPc = "failed"
    /\ csFailed = {"MUTE_ROOM"}
    /\ initialState # << >>
    /\ state = NoState

\* a call of processActions that got past the test of responses[0].content.action
ActionChosen == responses # << >> /\ responses[1] # NoActionName

\* the registered actions one of whose names, or similes, matches the choice
MatchingByName ==
    {i \in DOMAIN actions : Matches(actions[i].name, Normalize(responses[1]))}

MatchingBySimile ==
    {i \in DOMAIN actions :
        \E k \in DOMAIN actions[i].similes :
            Matches(actions[i].similes[k], Normalize(responses[1]))}

IsFirstOf(i, S) == i \in S /\ \A j \in S : i <= j

\* C14: processActions selects the first registered action whose normalized
\* name contains or is contained in the normalized chosen name; only when no
\* name matches, the first action with a simile passing the same test; the
\* handler called is that of the selected action.
C14_FirstNameThenSimile ==
    (paPc = "done" /\ ActionChosen) =>
        /\ MatchingByName # {} => IsFirstOf(selected, MatchingByName)
        /\ (MatchingByName = {} /\ MatchingBySimile # {}) =>
               IsFirstOf(selected, MatchingBySimile)
        /\ \A k \in DOMAIN handlerCalls : handlerCalls[k] = selected
        /\ (selected # 0 /\ actions[selected].handler) => handlerCalls # << >>

\* an action matching by simile only is registered before one matching by
\* name, and the handler of the one matching by name was called
C14_Witness ==
    /\ paPc = "done"
    /\ ActionChosen
    /\ \E i \in MatchingBySimile \ MatchingByName :
           \E j \in MatchingByName : i < j /\ handlerCalls = <<j>>

\* C15: when the chosen name matches no registered name and no simile,
\* processActions calls no handler and completes without raising.
C15_NoMatchNoHandlerNoError ==
    (paPc = "done" /\ ActionChosen /\ MatchingByName = {} /\ MatchingBySimile = {}) =>
        /\ handlerCalls = << >>
        /\ paOutcome = "returned"

\* a full registry none of whose names or similes matches the chosen name
C15_Witness ==
    /\ paPc = "done"
    /\ ActionChosen
    /\ Len(actions) >= 2
    /\ MatchingByName = {}
    /\ MatchingBySimile = {}
    /\ paOutcome = "returned"

\* C16: one call of processActions calls at most one handler, at most once.
C16_AtMostOneHandler == Len(handlerCalls) <= 1

\* two registered actions match, two responses carry an action, and one
\* handler was called
C16_Witness ==
    /\ paPc = "done"
    /\ Len(responses) >= 2
    /\ responses[2] # NoActionName
    /\ ActionChosen
    /\ Cardinality({i \in MatchingByName : actions[i].handler}) >= 2
    /\ Len(handlerCalls) = 1

\* C18: processActions calls the handler of an action only if the validate
\* of that action holds for the message and state being processed.
C18_HandlerOnlyIfValidated ==
    \A k \in DOMAIN handlerCalls : actions[handlerCalls[k]].name \in applicable

\* C17: evaluate runs the handler of an evaluator if and only if the
\* evaluator passed its validate for this message and state and its name is
\* in the list returned by the model.
C17_HandlerIffValidatedAndNamed ==
    evPc = "done" =>
        \A i \in DOMAIN evaluators :
            evaluators[i].handler =>
                ((\E k \in DOMAIN evHandlerCalls : evHandlerCalls[k] = evaluators[i].name)
                    <=> (evaluators[i].name \in evValid
                         /\ evaluators[i].name \in parsedResult))

\* C19: whatever the interleaving of the ensure calls of handlers running
\* at the same time, createAccount, createRoom and addParticipant are called
\* at most once for an identity, a room, or a (user, room) pair.
C19_CreateAtMostOncePerKey ==
    \A key \in DOMAIN createCalls : createCalls[key] <= 1

\* C20: two calls of embed with the same input return the same vector, and
\* make at most one request to an embedding service between them.
C20_EmbedTwiceOneRequest ==
    (Len(emCalls) = 2 /\ emCalls[1].input = emCalls[2].input) =>
        /\ emCalls[1].value = emCalls[2].value
        /\ emRequests[emCalls[1].input] <= 1

\* the cores of the chunks, one after the other
RECURSIVE CoresOf(_)
CoresOf(chunks) ==
    IF chunks = << >> THEN << >> ELSE Head(chunks).core \o CoresOf(Tail(chunks))

\* ceil(n / d) for d >= 1
CeilDiv(n, d) == (n + d - 1) \div d

CharsBefore(k) == Len(Decode(SubSeq(Encode(scContent), 1, scChunks[k].at)))

\* C22: the leading bleed of a chunk is the (up to bleed) characters of the
\* text just before the chunk's core text, the trailing bleed the (up to
\* bleed) characters just after it; the first chunk has no leading bleed and
\* the last no trailing bleed.
C22_BleedIsNeighbouringText ==
    scPc = "done" =>
        \A k \in DOMAIN scChunks :
            LET from == CharsBefore(k)
                to == from + Len(scChunks[k].decodedChunk)
            IN  /\ scChunks[k].startBleed =
                      SubSeq(scContent, Max(from - scBleed, 0) + 1, from)
                /\ scChunks[k].endBleed =
                      SubSeq(scContent, to + 1, Min(to + scBleed, Len(scContent)))

\* the first level, in the order secrets, settings, environment, where the
\* key satisfies P; 0 if there is none
FirstLevelWhere(P(_)) ==
    IF P(gsLevels["secrets"][gsKey]) THEN "secrets"
    ELSE IF P(gsLevels["settings"][gsKey]) THEN "settings"
    ELSE IF P(gsLevels["environment"][gsKey]) THEN "environment"
    ELSE "no level"

IsSet(v) == v # Unset

\* C23: getSetting(key) returns the value of the character secrets if the key
\* is set there, otherwise that of the character settings if set there,
\* otherwise that of the process environment, otherwise null.
C23_HighestLevelSetWins ==
    gsPc = "done" =>
        LET level == FirstLevelWhere(IsSet)
        IN  gsResult = IF level = "no level" THEN Null ELSE gsLevels[level][gsKey]

\* C24: a missing credential stops only what depends on it: with the
\* Telegram bot token or a Coinbase variable missing, the other connectors
\* of the agent, its direct registration and the start of the other agents
\* still take place.
C24_MissingCredentialIsLocal ==
    stPc \in {"done", "rejected"} =>
        \A a \in DOMAIN stCharacters :
            stCharacters[a].hasClients =>
                /\ <<a, "direct">> \in stStarted
                /\ "twitter" \in stCharacters[a].clients => <<a, "twitter">> \in stStarted
                /\ ("telegram" \in stCharacters[a].clients /\ stCharacters[a].botToken)
                      => <<a, "telegram">> \in stStarted

\* C25: composeState leaves the character's lists as they were: the same
\* elements in the same order.
C25_CharacterListsUntouched ==
    \A f \in DOMAIN character : \A i \in DOMAIN character[f] : character[f][i] = i

\* the validated names of a registry, in registration order
InRegistrationOrder(registry) == SelectSeq(registry, LAMBDA n : n \in validated)

\* C30: the state composeState returns does not depend on the order in
\* which its reads and validate calls complete: the validated actions and
\* evaluators are listed in registration order, and the messages and the
\* facts read land in their own fields.
C30_StateIndependentOfCompletionOrder ==
    csPc = "done" =>
        /\ \A k \in {"actions", "actionNames", "actionExamples"} :
               state[k].names = InRegistrationOrder(Actions)
        /\ state["evaluatorsData"].names = InRegistrationOrder(Evaluators)
        /\ state["recentMessagesData"].items =
               getMemories(messageStore, conversationLength)
        /\ state["recentFactsData"].facts =
               getMemories(factStore, RecentFactsCount(conversationLength))

\* the branches completed in another order than they were started, several
\* actions were validated, and a message and a fact were read
C30_Witness ==
    /\ csPc = "done"
    /\ csOrder.validates = <<4, 3, 2, 1>>
    /\ csOrder.reads = <<3, 2, 1, 4>>
    /\ Cardinality(validated \cap Names(Actions)) >= 2
    /\ state["recentMessagesData"].items # << >>
    /\ state["recentFactsData"].facts # << >>

\* C27: the state updateRecentMessageState returns differs from the state
\* handed in only in recentMessages, recentMessagesData and attachments, and
\* the state object handed in is not modified.
C27_OnlyRecentMessageKeysChange ==
    urPc = "done" =>
        /\ DOMAIN urReturned = DOMAIN urStateAtCall \cup RecentMessageKeys
        /\ \A k \in DOMAIN urStateAtCall \ RecentMessageKeys :
               urReturned[k] = urStateAtCall[k]
        /\ urState = urStateAtCall

\* a message arrived since the state was composed, and the returned state
\* holds it while the state handed in does not
C27_Witness ==
    /\ urPc = "done"
    /\ urReturned["recentMessagesData"] # urStateAtCall["recentMessagesData"]
    /\ urReturned["attachments"] # urStateAtCall["attachments"]
    /\ urReturned["actionNames"].names = <<"FOLLOW_ROOM">>

\* the attachments listed, as pairs of id and text
Listed(attachments) ==
    {<<attachments[i].id, attachments[i].text>> : i \in DOMAIN attachments}

\* C28: for the same stored messages, updateRecentMessageState lists the
\* same attachments as composeState: those of stale messages are listed with
\* the hidden marker, not dropped.
C28_SameAttachmentsAsComposeState ==
    urPc = "done" =>
        Listed(urReturned["attachments"].items) =
            Listed(AttachmentPass(getMemories(urStore, urConversationLength),
                                  << >>).attachments)

\* the calls of embed so far that were made with this input
CallsWith(input) == {i \in 1..Len(emCalls) : emCalls[i].input = input}

\* C26: a call of embed fails only after a request that was answered with a
\* non-2xx status has been repeated: an input with a failed call has seen
\* more requests than calls, so no call fails on the first such answer
C26_EmbedFailsOnlyAfterRetry ==
    \A i \in 1..Len(emCalls) :
        emCalls[i].value = EmbedError =>
            emRequests[emCalls[i].input] > Cardinality(CallsWith(emCalls[i].input))

\* C29: when a call of ensureParticipantExists(userId, roomId) has completed,
\* userId is a participant of roomId, whatever rooms userId was in before
C29_ParticipantOfRoomAfterCall ==
    epPc = "done" => <<epUserId, epRoomId>> \in participants

\* C31: every remote attempt, every failed attempt and every rejected parse
\* has written its log event by the time the next attempt is made or the
\* call ends: the events logged match the requests, the failures, the
\* exhaustions and the rejected parses counted
C31_EveryFailureLogged ==
    /\ cpc \in {"fetch", "returned", "thrown"} =>
          /\ logged.sends = requests
          /\ logged.errors = failures
    /\ wpc \in {"call", "wait", "returned"} =>
          /\ logged.caught = exhaustions
          /\ logged.rejects = rejected

\* how often an element occurs in a list
Occurrences(x, list) == Cardinality({i \in DOMAIN list : list[i] = x})

\* C32: each sampled field of a composed state holds at most its fixed
\* number of items, every item comes from the character's list for that
\* field, and no element occurs more often in the field than in that list
C32_SampledFieldsBounded ==
    csPc \in {"validate", "done"} =>
        \A key \in SampledKeys :
            /\ Len(sampled[key]) <= SampleSize(key, conversationLength)
            /\ \A i \in DOMAIN sampled[key] :
                  Occurrences(sampled[key][i], sampled[key])
                      <= Occurrences(sampled[key][i], SourceList(character, key))

\* C33: when the chosen name is exactly the name of a registered action,
\* processActions calls the handler of that action, if it has one, and the
\* handler of no other action
C33_ExactNameRunsThatAction ==
    (paPc = "done" /\ responses # << >>) =>
        \A i \in DOMAIN actions :
            actions[i].name = responses[1] =>
                /\ \A k \in DOMAIN handlerCalls : handlerCalls[k] = i
                /\ actions[i].handler => handlerCalls = <<i>>

\* the ids of a list of messages, in the order of the list
IdsInOrder(msgs) == [i \in DOMAIN msgs |-> msgs[i].id]

\* C34: recentMessagesData of the state composeState returns holds the
\* recent messages in the order the message store delivered them, with or
\* without attachments on them
C34_RecentMessagesInStoreOrder ==
    csPc = "done" =>
        IdsInOrder(state["recentMessagesData"].items) = IdsInOrder(ReadMessages)

\* C35: a vector returned by embed is the one the embedding service
\* computes for the input, never the zero vector stored as a placeholder
\* with a message of the same text
C35_EmbedReturnsServiceVector ==
    \A i \in 1..Len(emCalls) :
        emCalls[i].value # EmbedError =>
            emCalls[i].value = ServiceVector(emCalls[i].input)

\* C38: once the client is ready a round has started; from then on rounds
\* keep starting for ever, each further one when the timer has run its 20
\* minutes, whether earlier rounds failed, returned or are still running
C38_RoundsStartForever ==
    /\ [](twPc = "looping" => twRounds[1] # FreeSlot)
    /\ [][twStarts' # twStarts =>
             (twPc = "created" \/ twElapsed = TweetInterval)]_vars
    /\ []<>(twStarts = 0)
    /\ []<>(twStarts = 1)

\* the timer has just started a round while an earlier round, past its
\* first call, is still running
C38_Witness ==
    /\ twElapsed = 0
    /\ twRounds[2] = NewRound
    /\ Running(twRounds[1])
    /\ twRounds[1].at > 1

\* the calls a round made: those that returned and the one that threw
Called(round) == {round.calls[i] : i \in DOMAIN round.calls} \cup {round.failed}

\* C39: with dryRun a round calls neither sendTweet nor ensureRoomExists,
\* ensureParticipantInRoom or createMemory; without it, a round whose
\* sendTweet failed does not call createMemory
C39_NothingPostedOrStoredOnDryRun ==
    \A slot \in DOMAIN twRounds :
        /\ twDryRun =>
              Called(twRounds[slot]) \cap {"sendTweet", "ensureRoomExists",
                  "ensureParticipantInRoom", "createMemory"} = {}
        /\ twRounds[slot].failed = "sendTweet" =>
              "createMemory" \notin Called(twRounds[slot])

\* a dry run generated its text and returned
C39_Witness ==
    /\ twDryRun
    /\ \E slot \in DOMAIN twRounds :
          /\ HasReturned(twRounds[slot])
          /\ twRounds[slot].failed = "none"
          /\ twRounds[slot].calls = <<"ensureUserExists", "generate">>

\* C37: the memory ids of the reaction events differ from event to event,
\* also when a user puts the same emoji on the message again after taking
\* it off
C37_ReactionIdsDistinct ==
    \A g \in DOMAIN rxHandlers : \A h \in DOMAIN rxHandlers :
        g # h =>
            reactionUUID(rxHandlers[g].kind, rxHandlers[g].user, rxHandlers[g].emoji)
                # reactionUUID(rxHandlers[h].kind, rxHandlers[h].user, rxHandlers[h].emoji)

\* whether call a returned before call b was made, in a round's calls
ReturnedBefore(calls, a, b) ==
    \A j \in DOMAIN calls :
        calls[j] = b => \E i \in DOMAIN calls : i < j /\ calls[i] = a

\* C36: a tweet round and a reaction handler call createMemory only when
\* their ensureRoomExists and their ensureParticipantInRoom for the author
\* (the agent for a tweet, the reacting user for a reaction) have completed
C36_MemoryAfterRoomAndParticipant ==
    /\ \A slot \in DOMAIN twRounds :
          /\ ReturnedBefore(twRounds[slot].calls, "ensureRoomExists", "createMemory")
          /\ ReturnedBefore(twRounds[slot].calls, "ensureParticipantInRoom",
                            "createMemory")
          /\ twRounds[slot].failed = "createMemory" =>
                {"ensureRoomExists", "ensureParticipantInRoom"}
                    \subseteq {twRounds[slot].calls[i] : i \in DOMAIN twRounds[slot].calls}
    /\ \A h \in DOMAIN rxHandlers :
          (rxHandlers[h].at = Len(ReactionSteps) /\ rxHandlers[h].ended = "returned") =>
              {"ensureRoomExists", "ensureParticipantInRoom(user)"}
                  \subseteq rxHandlers[h].before

\* a tweet round has stored its memory
C36_Witness ==
    \E slot \in DOMAIN twRounds :
        /\ HasReturned(twRounds[slot])
        /\ Len(twRounds[slot].calls) = Len(TweetSteps)
        /\ twRounds[slot].calls[Len(TweetSteps)] = "createMemory"

\* the records of a list other than the one with this id
Others(list, id) == SelectSeq(list, LAMBDA memory : memory.id # id)

Known(list, id) == \E i \in DOMAIN list : list[i].id = id

\* C40: PUT and DELETE of an id not in the store answer 404 and leave the
\* store as it was; for an id in the store every other record stays as it
\* was and in place, PUT changes only content and updatedAt of the target,
\* and DELETE removes the target and nothing else
C40_PutDeleteTouchOnlyTarget ==
    msLast.method \in {"PUT", "DELETE"} =>
        LET before == msLast.before
            id == msLast.id
        IN  /\ ~Known(before, id) => (msLast.status = 404 /\ memories = before)
            /\ Known(before, id) =>
                  /\ msLast.status = 200
                  /\ Others(memories, id) = Others(before, id)
                  /\ msLast.method = "DELETE" =>
                        (~Known(memories, id) /\ Len(memories) = Len(before) - 1)
                  /\ msLast.method = "PUT" =>
                        /\ Len(memories) = Len(before)
                        /\ \A i \in DOMAIN before :
                              /\ memories[i].id = before[i].id
                              /\ memories[i].userId = before[i].userId
                              /\ memories[i].agentId = before[i].agentId
                              /\ memories[i].createdAt = before[i].createdAt

\* the first of two records has just been deleted and the second is left
C40_Witness ==
    /\ msLast.method = "DELETE"
    /\ msLast.status = 200
    /\ Len(msLast.before) = 2
    /\ msLast.before[1].id = msLast.id
    /\ Len(memories) = 1

====
